---------------------------- MODULE Spec2Model ----------------------------
(***************************************************************************)
(* Model of the model API gateway (src/main.py): the status document, the  *)
(* two caches, the reverse proxy with its static-asset fast path, the      *)
(* response handling (URL rewriting, UI injection) and the auxiliary       *)
(* health / endpoints operations.                                          *)
(*                                                                         *)
(* Text is modelled as a sequence of atoms.  A URL path is a sequence of   *)
(* atoms ("/", "api", "x", the characters of a backend key), so that       *)
(* startswith, endswith, lstrip, concatenation and equality are computed   *)
(* on the text itself.  A payload is a sequence of items [ctx, val]: an item is either *)
(* a reference (ctx names the syntactic context, val is the quoted URL) or *)
(* a piece of markup (ctx = "text", val = the markup atom).                *)
(***************************************************************************)
EXTENDS Integers, Sequences, FiniteSets, TLC

VARIABLES
    model_status,           \* content of model_status.json (external writer)
    fs,                     \* the models/ directory: folder, descriptor, files
    model_info_cache,       \* main.py:24
    model_endpoints_cache,  \* main.py:21
    resp,                   \* the last request and the response it got
    rw,                     \* harness of the content rewriter (SpecRewrite)
    validation,             \* harness of the validators of utils/
    pipeline,               \* a run of run_infer, utils/infer.py:76-117
    inflight                \* proxied requests between their awaits

vars ==
    <<model_status, fs, model_info_cache, model_endpoints_cache, resp, rw, validation,
      pipeline, inflight>>

---------------------------------------------------------------------------
(* Bounds of the model *)

MaxPaths == 2        \* known endpoint paths handed to the rewriter
MaxBodyLen == 3      \* items of an HTML body returned by a backend
MaxFlights == 2      \* proxied requests in flight at the same time
MaxPairs == 2        \* query parameters, or headers, of an inbound request
MaxStages == 3       \* stages of a model sequence
MaxRows == 2         \* feature records of a list given to verify_types

---------------------------------------------------------------------------
(* Text helpers (Python str methods on atom sequences) *)

startswith(s, p) ==
    /\ Len(s) >= Len(p)
    /\ SubSeq(s, 1, Len(p)) = p

endswith(s, p) ==
    /\ Len(s) >= Len(p)
    /\ SubSeq(s, Len(s) - Len(p) + 1, Len(s)) = p

RECURSIVE lstrip_slash(_)
lstrip_slash(s) ==
    IF s # <<>> /\ Head(s) = "/" THEN lstrip_slash(Tail(s)) ELSE s

Contains(s, a) == \E i \in DOMAIN s : s[i] = a

RECURSIVE SeqsUpTo(_, _)
SeqsUpTo(S, n) ==
    IF n = 0 THEN {<<>>}
    ELSE LET shorter == SeqsUpTo(S, n - 1)
         IN shorter \cup {Append(s, x) : s \in shorter, x \in S}

---------------------------------------------------------------------------
(* Payload items *)

Ref(c, v) == [ctx |-> c, val |-> v]
Text(a) == [ctx |-> "text", val |-> <<a>>]

\* The syntactic contexts a URL can stand in:
\*   href="V"  src="V"  action="V"      attributes, double-quoted
\*   fetch("V")  fetch('V')             fetch with the URL as only argument
\*   fetch("V",  fetch('V',             fetch with further arguments
\*   open("GET", "V"  open("POST", "V"  (and single-quoted)   XHR open
\*   open("PUT", "V"                     XHR open, another method
AttrCtx == {"href", "src", "action"}
FetchCtx == {"fetch_dq", "fetch_sq", "fetch_dq_args", "fetch_sq_args"}
XhrCtx == {"open_get_dq", "open_post_dq", "open_get_sq", "open_post_sq"}
RefCtx == AttrCtx \cup FetchCtx \cup XhrCtx \cup {"open_put_dq"}

MountPrefix(model_name) == <<"/", "api", "/">> \o model_name

\* content_text.replace(ctx"old", ctx"new") for every ctx in ctxs
ReplaceVal(content, ctxs, old, new) ==
    [i \in DOMAIN content |->
        IF content[i].ctx \in ctxs /\ content[i].val = old
        THEN [content[i] EXCEPT !.val = new]
        ELSE content[i]]

---------------------------------------------------------------------------
(* rewrite_urls_in_content, main.py:181-244 *)

Rewritten(model_name, path) ==
    MountPrefix(model_name) \o <<"/">> \o lstrip_slash(path)

\* one iteration of the loop of main.py:188-194
HrefStep(content, model_name, path) ==
    IF ~startswith(path, <<"/">>) THEN content
    ELSE LET c1 == ReplaceVal(content, {"href"}, path, Rewritten(model_name, path))
         IN IF ~endswith(path, <<"/">>)
            THEN ReplaceVal(c1, {"href"}, path \o <<"/">>,
                            Rewritten(model_name, path) \o <<"/">>)
            ELSE c1

\* one iteration of the loops of main.py:197-200, 203-206, 209-213, 216-222
TargetStep(content, ctxs, model_name, path) ==
    IF ~startswith(path, <<"/">>) THEN content
    ELSE ReplaceVal(content, ctxs, path, Rewritten(model_name, path))

RECURSIVE HrefPass(_, _, _, _)
HrefPass(content, model_name, paths, i) ==
    IF i > Len(paths) THEN content
    ELSE HrefPass(HrefStep(content, model_name, paths[i]), model_name, paths, i + 1)

RECURSIVE TargetPass(_, _, _, _, _)
TargetPass(content, ctxs, model_name, paths, i) ==
    IF i > Len(paths) THEN content
    ELSE TargetPass(TargetStep(content, ctxs, model_name, paths[i]),
                    ctxs, model_name, paths, i + 1)

\* the lambda of the re.sub calls, main.py:228, 235, 240
CatchAllValue(model_name, v) ==
    IF ~startswith(v, <<"/", "api", "/">>) THEN MountPrefix(model_name) \o v ELSE v

\* re.sub over the contexts the three patterns match, main.py:226-242
CatchAllPass(content, ctxs, model_name) ==
    [i \in DOMAIN content |->
        IF content[i].ctx \in ctxs /\ startswith(content[i].val, <<"/">>)
        THEN [content[i] EXCEPT !.val = CatchAllValue(model_name, content[i].val)]
        ELSE content[i]]

rewrite_urls_in_content(content_text, model_name, endpoints) ==
    LET paths == [i \in DOMAIN endpoints |-> endpoints[i].path]
        c1 == HrefPass(content_text, model_name, paths, 1)
        c2 == TargetPass(c1, {"src"}, model_name, paths, 1)
        c3 == TargetPass(c2, {"action"}, model_name, paths, 1)
        c4 == TargetPass(c3, FetchCtx, model_name, paths, 1)
        c5 == TargetPass(c4, XhrCtx, model_name, paths, 1)
        c6 == CatchAllPass(c5, AttrCtx, model_name)
        c7 == CatchAllPass(c6, {"fetch_dq"}, model_name)
    IN CatchAllPass(c7, {"fetch_sq"}, model_name)

---------------------------------------------------------------------------
(* Backend keys, status document, models directory *)

K1 == <<"m", "-", "1">>
K2 == <<"M", "_", "1">>
Keys == {K1, K2}

LivePorts == {9001}
NoPort == 0          \* "port" null, absent or 0: all falsy at main.py:280

\* one entry of the "models" map; present = FALSE: the key is not in the map;
\* status "" stands for an entry without a "status" field
NoEntry == [present |-> FALSE, status |-> "", port |-> NoPort]
Entries ==
    {NoEntry} \cup
    [present : {TRUE}, status : {"success", "failed", ""}, port : LivePorts \cup {NoPort}]

\* model_status.json: absent, unreadable (open or json.load raises something
\* other than FileNotFoundError) or a document
NoModels == [k \in Keys |-> NoEntry]
AbsentDoc == [state |-> "absent", models |-> NoModels]
UnreadableDoc == [state |-> "unreadable", models |-> NoModels]
Doc(models) == [state |-> "ok", models |-> models]

\* mutant: the document is read once, when the process starts (it is absent
\* then), and the result is kept
load_model_status_AtStartup(file) ==
    [raised |-> FALSE, models |-> NoModels]

\* load_model_status, main.py:144-149
load_model_status(file) ==
    CASE file.state = "ok" -> [raised |-> FALSE, models |-> file.models]
      [] file.state = "absent" -> [raised |-> FALSE, models |-> NoModels]
      [] OTHER -> [raised |-> TRUE, models |-> NoModels]

\* str.lower() and the two str.replace calls of main.py:37/40, per character
NormChar(c) ==
    CASE c = "M" -> "m"
      [] c = "-" -> "_"
      [] c = "." -> "_"
      [] OTHER -> c

Normalize(name) == [i \in DOMAIN name |-> NormChar(name[i])]

\* the models/ directory: at most one model folder; descriptor is the state of
\* <folder>/utils/config.py; files and dirs are sub-paths below the folder
NoFolder == <<>>
Folder1 == <<"M", "-", "1">>
LogoPng == <<"logo", ".", "png">>
LogoPngUpper == <<"logo", ".", "PNG">>
AppJs == <<"app", ".", "js">>
DataBin == <<"data", ".", "bin">>
DottedDir == <<"v1", ".", "css", "/", "x">>
MainJs == <<"main-js">>
StyleCss == <<"style-css">>
RootPath == <<>>

Dir(folder, descriptor, files, dirs) ==
    [folder |-> folder, descriptor |-> descriptor, files |-> files, dirs |-> dirs]

FullDir == Dir(Folder1, "single", {LogoPng, LogoPngUpper}, {AppJs})

FsPool ==
    { Dir(NoFolder, "none", {}, {}),
      Dir(Folder1, "none", {LogoPng}, {}),
      Dir(Folder1, "invalid", {LogoPng}, {}),
      FullDir,
      Dir(Folder1, "sequence", {}, {}) }

NoInfo == [found |-> FALSE, type |-> "", folder_name |-> NoFolder]
EmptyInfoCache == [k \in Keys |-> NoInfo]

\* mutant: a descriptor whose import raised is taken as a loaded single model
load_model_config_IgnoresFailure(cache, dir, model_folder_name) ==
    IF cache[model_folder_name].found
    THEN [info |-> cache[model_folder_name], cache |-> cache, scanned |-> FALSE]
    ELSE LET info == [found |-> TRUE,
                      type |-> IF dir.descriptor = "sequence" THEN "sequence" ELSE "single",
                      folder_name |-> dir.folder]
         IN IF /\ dir.folder # NoFolder
               /\ Normalize(dir.folder) = Normalize(model_folder_name)
               /\ dir.descriptor \in {"single", "sequence", "invalid"}
            THEN [info |-> info,
                  cache |-> [cache EXCEPT ![model_folder_name] = info],
                  scanned |-> TRUE]
            ELSE [info |-> NoInfo, cache |-> cache, scanned |-> TRUE]

\* load_model_config, main.py:26-86.  cache[k].found = FALSE: k is not a key
\* of model_info_cache.  scanned: os.listdir(models_dir) was run.
load_model_config(cache, dir, model_folder_name) ==
    IF cache[model_folder_name].found
    THEN [info |-> cache[model_folder_name], cache |-> cache, scanned |-> FALSE]
    ELSE LET matches == dir.folder # NoFolder
                        /\ Normalize(dir.folder) = Normalize(model_folder_name)
             info == [found |-> TRUE,
                      type |-> IF dir.descriptor = "sequence" THEN "sequence" ELSE "single",
                      folder_name |-> dir.folder]
         IN IF matches /\ dir.descriptor \in {"single", "sequence"}
            THEN [info |-> info,
                  cache |-> [cache EXCEPT ![model_folder_name] = info],
                  scanned |-> TRUE]
            ELSE [info |-> NoInfo, cache |-> cache, scanned |-> TRUE]

---------------------------------------------------------------------------
(* Endpoint discovery, main.py:151-179 *)

Endpoint(p, m) == [path |-> p, method |-> m]

\* method.upper(), main.py:167
Upper(m) ==
    CASE m = "get" -> "GET"
      [] m = "post" -> "POST"
      [] OTHER -> m

NoEndpoints == [cached |-> FALSE, endpoints |-> <<>>]
EmptyEndpointsCache == [k \in Keys |-> NoEndpoints]

Call(kind, port, method, path) ==
    [kind |-> kind, port |-> port, method |-> method, path |-> path]

OpenApiPath == <<"openapi", ".", "json">>

\* what the backend does with GET /openapi.json: the connection fails, the call
\* times out, or it answers with a status and a body; wellformed = FALSE: the
\* body is not JSON or not of the manifest's shape (response.json() or one of
\* the .items()/.get() calls raises)
Manifest(kind, status, wellformed, routes) ==
    [kind |-> kind, status |-> status, wellformed |-> wellformed, routes |-> routes]

\* mutant: the status of the manifest response is not looked at
get_model_endpoints_internal_NoStatusCheck(cache, model_name, port, disc) ==
    LET call == <<Call("discovery", port, "GET", OpenApiPath)>>
        eps == [i \in DOMAIN disc.routes |->
                   Endpoint(disc.routes[i].path, Upper(disc.routes[i].method))]
    IN IF cache[model_name].cached
       THEN [endpoints |-> cache[model_name].endpoints, cache |-> cache, calls |-> <<>>]
       ELSE IF disc.kind = "response" /\ disc.wellformed
       THEN [endpoints |-> eps,
             cache |-> [cache EXCEPT ![model_name] = [cached |-> TRUE, endpoints |-> eps]],
             calls |-> call]
       ELSE [endpoints |-> <<>>, cache |-> cache, calls |-> call]

\* mutant: the fallback list of a failed fetch is cached as well
get_model_endpoints_internal_CachesFallback(cache, model_name, port, disc) ==
    LET call == <<Call("discovery", port, "GET", OpenApiPath)>>
        ok == disc.kind = "response" /\ disc.status = 200 /\ disc.wellformed
        eps == IF ok
               THEN [i \in DOMAIN disc.routes |->
                        Endpoint(disc.routes[i].path, Upper(disc.routes[i].method))]
               ELSE <<>>
    IN IF cache[model_name].cached
       THEN [endpoints |-> cache[model_name].endpoints, cache |-> cache, calls |-> <<>>]
       ELSE [endpoints |-> eps,
             cache |-> [cache EXCEPT ![model_name] =
                           [cached |-> TRUE, endpoints |-> eps]],
             calls |-> call]

\* mutant: the cache is written but never read
get_model_endpoints_internal_AlwaysFetches(cache, model_name, port, disc) ==
    LET call == <<Call("discovery", port, "GET", OpenApiPath)>>
        eps == [i \in DOMAIN disc.routes |->
                   Endpoint(disc.routes[i].path, Upper(disc.routes[i].method))]
    IN IF disc.kind = "response" /\ disc.status = 200 /\ disc.wellformed
       THEN [endpoints |-> eps,
             cache |-> [cache EXCEPT ![model_name] =
                           [cached |-> TRUE, endpoints |-> eps]],
             calls |-> call]
       ELSE [endpoints |-> <<>>, cache |-> cache, calls |-> call]

\* mutant: one list for the backend, stored under every key
get_model_endpoints_internal_SharedEntry(cache, model_name, port, disc) ==
    LET call == <<Call("discovery", port, "GET", OpenApiPath)>>
        eps == [i \in DOMAIN disc.routes |->
                   Endpoint(disc.routes[i].path, Upper(disc.routes[i].method))]
    IN IF cache[model_name].cached
       THEN [endpoints |-> cache[model_name].endpoints, cache |-> cache, calls |-> <<>>]
       ELSE IF disc.kind = "response" /\ disc.status = 200 /\ disc.wellformed
       THEN [endpoints |-> eps,
             cache |-> [k \in DOMAIN cache |-> [cached |-> TRUE, endpoints |-> eps]],
             calls |-> call]
       ELSE [endpoints |-> <<>>, cache |-> cache, calls |-> call]

\* get_model_endpoints_internal, main.py:151-179
get_model_endpoints_internal(cache, model_name, port, disc) ==
    IF cache[model_name].cached
    THEN [endpoints |-> cache[model_name].endpoints, cache |-> cache, calls |-> <<>>]
    ELSE LET call == <<Call("discovery", port, "GET", OpenApiPath)>>
             eps == [i \in DOMAIN disc.routes |->
                        Endpoint(disc.routes[i].path, Upper(disc.routes[i].method))]
         IN IF disc.kind = "response" /\ disc.status = 200 /\ disc.wellformed
            THEN [endpoints |-> eps,
                  cache |-> [cache EXCEPT ![model_name] =
                                [cached |-> TRUE, endpoints |-> eps]],
                  calls |-> call]
            ELSE [endpoints |-> <<>>, cache |-> cache, calls |-> call]

---------------------------------------------------------------------------
(* HTTP messages *)

TextHtml == <<"text/html">>
TextHtmlUtf8 == <<"text/html", "; charset=utf-8">>
AppJavascript == <<"application/javascript">>
TextCss == <<"text/css">>
AppJson == <<"application/json">>
ImagePng == <<"image/png">>
NoValue == <<>>

\* headers every modelled backend sends besides its content type
BaseHeaders == ("server" :> <<"uvicorn">>) @@ ("x-model" :> <<"v1">>)

BackendHeaders(ctype) ==
    IF ctype = NoValue THEN BaseHeaders ELSE ("content-type" :> ctype) @@ BaseHeaders

\* what the backend does with the forwarded request
\* what the backend does with the forwarded request: kind is "response",
\* "connect_error" (httpx.ConnectError), "timeout" (httpx.TimeoutException) or
\* "other_error" (any other exception, with its message)
Upstream(kind, status, ctype, body, error) ==
    [kind |-> kind, status |-> status, headers |-> BackendHeaders(ctype),
     body |-> body, error |-> error]

NoHeaders == [n \in {} |-> NoValue]

NoUpstream ==
    [kind |-> "none", status |-> 0, headers |-> NoHeaders, body |-> <<>>, error |-> ""]

\* headers.get(name, ""), main.py:350
HeaderGet(headers, name) == IF name \in DOMAIN headers THEN headers[name] ELSE NoValue

\* main.py:357-360
ResponseExcluded ==
    {"content-encoding", "transfer-encoding", "connection", "server", "date",
     "content-length"}

\* main.py:353-361; httpx yields the header names in lower case
FilterResponseHeaders(headers) ==
    [n \in DOMAIN headers \ ResponseExcluded |-> headers[n]]

\* response_headers[name] = value
SetHeader(headers, name, value) == (name :> value) @@ headers

\* markup atoms of a payload
HeadOpen == Text("<head>")
HeadClose == Text("</head>")
BodyClose == Text("</body>")
Newline == Text("\\n")
BadByte == Text("\\xff")                 \* a byte that is not valid UTF-8
StyleBlock == Text("back_to_home_css")   \* main.py:378-419
ScriptBlock == Text("back_to_home_js")   \* main.py:421-447

\* content.decode('utf-8'), main.py:369/476: raises UnicodeDecodeError on a byte
\* sequence that is not UTF-8
Decodable(content) == \A i \in DOMAIN content : content[i] # BadByte

\* str.replace(old, new) where old is one markup atom and new a sequence
RECURSIVE ReplaceItem(_, _, _)
ReplaceItem(content, old, new) ==
    IF content = <<>> THEN <<>>
    ELSE (IF Head(content) = old THEN new ELSE <<Head(content)>>)
         \o ReplaceItem(Tail(content), old, new)

HasItem(content, item) == \E i \in DOMAIN content : content[i] = item

\* mutant: the style block goes after </head>
InjectStyle_AfterHeadClose(content_text) ==
    IF HasItem(content_text, HeadClose)
    THEN ReplaceItem(content_text, HeadClose, <<HeadClose, Newline, StyleBlock>>)
    ELSE IF HasItem(content_text, HeadOpen)
    THEN ReplaceItem(content_text, HeadOpen, <<HeadOpen, Newline, StyleBlock>>)
    ELSE <<StyleBlock>> \o content_text

\* main.py:450-456
InjectStyle(content_text) ==
    IF HasItem(content_text, HeadClose)
    THEN ReplaceItem(content_text, HeadClose, <<StyleBlock, Newline, HeadClose>>)
    ELSE IF HasItem(content_text, HeadOpen)
    THEN ReplaceItem(content_text, HeadOpen, <<HeadOpen, Newline, StyleBlock>>)
    ELSE <<StyleBlock>> \o content_text

\* main.py:458-462
InjectScript(content_text) ==
    IF HasItem(content_text, BodyClose)
    THEN ReplaceItem(content_text, BodyClose, <<ScriptBlock, Newline, BodyClose>>)
    ELSE content_text \o <<ScriptBlock>>

---------------------------------------------------------------------------
(* Sub-paths and the static-asset fast path, main.py:283-316 *)

\* index of the last occurrence of atom a in s, 0 if there is none
LastIndexOf(s, a) ==
    LET hits == {i \in DOMAIN s : s[i] = a}
    IN IF hits = {} THEN 0 ELSE CHOOSE i \in hits : \A j \in hits : j <= i

\* path.split('/')[-1]
LastSegment(path) == SubSeq(path, LastIndexOf(path, "/") + 1, Len(path))

\* str.lower() on the atoms of a file extension
LowerAtom(a) ==
    CASE a = "PNG" -> "png"
      [] a = "JS" -> "js"
      [] OTHER -> a

\* path.split('.')[-1].lower(), main.py:285
FileExtension(path) ==
    LET tail == SubSeq(path, LastIndexOf(path, ".") + 1, Len(path))
    IN [i \in DOMAIN tail |-> LowerAtom(tail[i])]

\* main.py:298-309 (its keys are the static_extensions of main.py:286)
content_type_map ==
    (<<"png">> :> <<"image/png">>) @@ (<<"jpg">> :> <<"image/jpeg">>) @@
    (<<"jpeg">> :> <<"image/jpeg">>) @@ (<<"gif">> :> <<"image/gif">>) @@
    (<<"svg">> :> <<"image/svg+xml">>) @@ (<<"css">> :> <<"text/css">>) @@
    (<<"js">> :> <<"application/javascript">>) @@ (<<"ico">> :> <<"image/x-icon">>) @@
    (<<"pdf">> :> <<"application/pdf">>) @@ (<<"txt">> :> <<"text/plain">>)

static_extensions == DOMAIN content_type_map

\* main.py:284 and 288
LooksStatic(path) ==
    /\ path # RootPath
    /\ Contains(LastSegment(path), ".")
    /\ FileExtension(path) \in static_extensions

\* mutant: os.path.exists alone, a directory passes
IsLocalFile_ExistsOnly(dir, folder_name, path) ==
    /\ folder_name = dir.folder
    /\ path \in dir.files \cup dir.dirs

\* os.path.exists(p) and os.path.isfile(p) for p = models/<folder>/<path>
IsLocalFile(dir, folder_name, path) ==
    /\ folder_name = dir.folder
    /\ path \in dir.files

---------------------------------------------------------------------------
(* The request built for the backend, main.py:321-347 *)

\* an inbound request: query_params and headers are lists of <<name, value>>
\* pairs in the order received, a name may occur more than once
Request(method, query_params, headers, body) ==
    [method |-> method, query_params |-> query_params, headers |-> headers,
     body |-> body]

\* the value a dict holds for key k after the pairs were put into it in order
LastValue(pairs, k) ==
    pairs[CHOOSE i \in DOMAIN pairs :
             /\ pairs[i][1] = k
             /\ \A j \in DOMAIN pairs : pairs[j][1] = k => j <= i][2]

\* the items of the dict built from a list of pairs: one item per key, in the
\* order the keys first occur, with the value put last
RECURSIVE DictItems(_, _)
DictItems(pairs, i) ==
    IF i > Len(pairs) THEN <<>>
    ELSE (IF \E j \in 1..(i - 1) : pairs[j][1] = pairs[i][1]
          THEN <<>>
          ELSE << <<pairs[i][1], LastValue(pairs, pairs[i][1])>> >>)
         \o DictItems(pairs, i + 1)

\* dict(request.query_params), main.py:343
QueryDict(query_params) == DictItems(query_params, 1)

\* key.lower(), main.py:329
LowerName(name) ==
    CASE name = "Host" -> "host"
      [] name = "TE" -> "te"
      [] name = "Content-Type" -> "content-type"
      [] OTHER -> name

\* the Content-Type lines of a response built from the dict `headers`:
\* Response lower-cases each name and emits one line per item of the dict
ContentTypeLines(headers) ==
    {<<n, headers[n]>> : n \in {m \in DOMAIN headers : LowerName(m) = "content-type"}}

\* main.py:331-335
RequestExcluded ==
    {"host", "content-length", "connection", "upgrade", "transfer-encoding", "te",
     "trailer", "proxy-authorization", "proxy-authenticate", "accept-encoding"}

KeepsHeader(h) == LowerName(h[1]) \notin RequestExcluded

\* main.py:327-336: headers[key] = value for every inbound header that is kept
RequestHeaders(headers) == DictItems(SelectSeq(headers, KeepsHeader), 1)

\* the arguments of client.request, main.py:339-347
BuildRequest(req) ==
    [method |-> req.method, params |-> QueryDict(req.query_params),
     headers |-> RequestHeaders(req.headers), content |-> req.body]

NoInbound == Request("", <<>>, <<>>, <<>>)
NoSent == [method |-> "", params |-> <<>>, headers |-> <<>>, content |-> <<>>]

\* a request without query, headers or body
PlainRequest(method) == Request(method, <<>>, <<>>, <<>>)

---------------------------------------------------------------------------
(* Responses of the gateway *)

\* source: "gateway" (an HTTPException raised by the handler), "unhandled" (an
\* exception that leaves the handler), "file" (FileResponse), "backend" (the
\* Response built from the backend's answer), "json" (a returned dict)
Reply(status, headers, body, detail, source) ==
    [status |-> status, headers |-> headers, body |-> body, detail |-> detail,
     source |-> source, endpoints |-> <<>>]

HTTPException(status, detail) ==
    Reply(status, NoHeaders, <<>>, detail, "gateway")

Unhandled == Reply(500, NoHeaders, <<>>, "Internal Server Error", "unhandled")

\* a dict returned by a handler: HTTP 200, detail is its "status" field, body
\* its "reason" (if any), endpoints its "endpoints" list
Json(status_field, reason, endpoints) ==
    [status |-> 200, headers |-> NoHeaders, body |-> reason, detail |-> status_field,
     source |-> "json", endpoints |-> endpoints]

\* what a handler leaves behind: its reply, the caches, the outbound calls it
\* issued in order, and what it consulted besides the status document
Outcome(reply, icache, ecache, calls, touched) ==
    [reply |-> reply, icache |-> icache, ecache |-> ecache, calls |-> calls,
     touched |-> touched]

---------------------------------------------------------------------------
(* proxy_to_model, main.py:266-506 *)

\* mutant: the content type is compared, not searched
IsHtml200_ExactType(up) ==
    /\ HeaderGet(up.headers, "content-type") = TextHtml
    /\ up.status = 200

\* mutant: the status of the answer is not looked at
IsHtml200_AnyStatus(up) ==
    Contains(HeaderGet(up.headers, "content-type"), "text/html")

\* main.py:367
IsHtml200(up) ==
    /\ Contains(HeaderGet(up.headers, "content-type"), "text/html")
    /\ up.status = 200

\* main.py:474; "javascript" in content_type holds for the javascript types
IsJavascript(up, path) ==
    \/ \E a \in {"application/javascript", "text/javascript"} :
          Contains(HeaderGet(up.headers, "content-type"), a)
    \/ endswith(path, <<".", "js">>)
    \/ path = MainJs

\* main.py:490
IsCss(path) == path = StyleCss \/ endswith(path, <<".", "css">>)

\* main.py:492
IsJson(up) == Contains(HeaderGet(up.headers, "content-type"), "application/json")

\* main.py:349-499: the Response built from the backend's answer `up`
HandleResponse(ecache, model_name, port, path, up, disc) ==
    LET response_headers == FilterResponseHeaders(up.headers)
        found == get_model_endpoints_internal(ecache, model_name, port, disc)
        rewritten == rewrite_urls_in_content(up.body, model_name, found.endpoints)
        plain(headers) ==
            [reply |-> Reply(up.status, headers, up.body, "", "backend"),
             ecache |-> ecache, calls |-> <<>>]
    IN  IF IsHtml200(up)
        THEN IF Decodable(up.body)
             THEN [reply |-> Reply(up.status,
                                   SetHeader(response_headers, "Content-Type", TextHtmlUtf8),
                                   InjectScript(InjectStyle(rewritten)), "", "backend"),
                   ecache |-> found.cache, calls |-> found.calls]
             ELSE plain(response_headers)
        ELSE IF IsJavascript(up, path)
        THEN IF Decodable(up.body)
             THEN [reply |-> Reply(up.status,
                                   SetHeader(response_headers, "Content-Type", AppJavascript),
                                   rewritten, "", "backend"),
                   ecache |-> found.cache, calls |-> found.calls]
             ELSE plain(response_headers)
        ELSE IF IsCss(path)
        THEN plain(SetHeader(response_headers, "Content-Type", TextCss))
        ELSE IF IsJson(up)
        THEN plain(SetHeader(response_headers, "Content-Type", AppJson))
        ELSE plain(response_headers)

\* mutant: the timeout clause is missing, a timeout is any other exception
FailureReply_NoTimeoutClause(up) ==
    IF up.kind = "connect_error" THEN HTTPException(503, "Cannot connect to model")
    ELSE HTTPException(500, up.error)

\* mutant: the exception of a timeout is not caught and the wait goes on
FailureReply_KeepsWaiting(up) ==
    CASE up.kind = "connect_error" -> HTTPException(503, "Cannot connect to model")
      [] up.kind = "timeout" -> Reply(0, NoHeaders, <<>>, "", "none")
      [] OTHER -> HTTPException(500, up.error)

\* main.py:501-506: the except clauses around the forwarded request
FailureReply(up) ==
    CASE up.kind = "connect_error" -> HTTPException(503, "Cannot connect to model")
      [] up.kind = "timeout" -> HTTPException(504, "Timeout connecting to model")
      [] OTHER -> HTTPException(500, up.error)

\* mutant: follow_redirects=True, a 3xx answer is followed to its Location and
\* the answer found there (200, empty) is returned
Forward_FollowRedirects(ecache, model_name, port, method, path, up, disc) ==
    LET call == <<Call("forward", port, method, path)>>
        handled == HandleResponse(ecache, model_name, port, path, up, disc)
    IN  IF up.kind = "response" /\ up.status \in 300..399 /\ "location" \in DOMAIN up.headers
        THEN [reply |-> Reply(200, NoHeaders, <<>>, "", "backend"), ecache |-> ecache,
              calls |-> call \o <<Call("forward", port, "GET", up.headers["location"])>>]
        ELSE IF up.kind = "response"
        THEN [reply |-> handled.reply, ecache |-> handled.ecache,
              calls |-> call \o handled.calls]
        ELSE [reply |-> FailureReply(up), ecache |-> ecache, calls |-> call]

\* main.py:318-347 and 501-506: the forwarded request and what comes of it
Forward(ecache, model_name, port, method, path, up, disc) ==
    LET call == <<Call("forward", port, method, path)>>
        handled == HandleResponse(ecache, model_name, port, path, up, disc)
    IN  IF up.kind = "response"
        THEN [reply |-> handled.reply, ecache |-> handled.ecache,
              calls |-> call \o handled.calls]
        ELSE [reply |-> FailureReply(up), ecache |-> ecache, calls |-> call]

\* main.py:283-316: the FileResponse of the fast path, or found = FALSE
StaticAsset(icache, dir, model_name, path) ==
    LET loaded == load_model_config(icache, dir, model_name)
        served == /\ loaded.info.found
                  /\ loaded.info.folder_name # NoFolder
                  /\ IsLocalFile(dir, loaded.info.folder_name, path)
    IN  IF ~LooksStatic(path)
        THEN [found |-> FALSE, reply |-> Unhandled, icache |-> icache, touched |-> {}]
        ELSE [found |-> served,
              reply |-> Reply(200,
                              "content-type" :> content_type_map[FileExtension(path)],
                              <<Ref("file", loaded.info.folder_name \o <<"/">> \o path)>>,
                              "", "file"),
              icache |-> loaded.cache,
              touched |-> {"config_cache"}
                          \cup (IF loaded.scanned THEN {"models_dir"} ELSE {})
                          \cup (IF loaded.info.found THEN {"local_file"} ELSE {})]

\* main.py:272-281: the HTTPException of the Lookup step, or source = "live"
Live == Reply(0, NoHeaders, <<>>, "", "live")

\* mutant: the port is not checked
Lookup_NoPortCheck(model_info) ==
    IF ~model_info.present THEN HTTPException(404, "not found")
    ELSE IF model_info.status # "success" THEN HTTPException(503, "is not running")
    ELSE Live

\* mutant: an unknown key is reported as not running
Lookup_UnknownNotRunning(model_info) ==
    IF ~model_info.present \/ model_info.status # "success"
    THEN HTTPException(503, "is not running")
    ELSE IF model_info.port = NoPort THEN HTTPException(503, "has no port assigned")
    ELSE Live

Lookup(model_info) ==
    IF ~model_info.present THEN HTTPException(404, "not found")
    ELSE IF model_info.status # "success" THEN HTTPException(503, "is not running")
    ELSE IF model_info.port = NoPort THEN HTTPException(503, "has no port assigned")
    ELSE Live

\* proxy_to_model, main.py:268-506
proxy_to_model(file, dir, icache, ecache, model_name, method, path, up, disc) ==
    LET status_data == load_model_status(file)
        model_info == status_data.models[model_name]
        lookup == Lookup(model_info)
        static == StaticAsset(icache, dir, model_name, path)
        fwd == Forward(ecache, model_name, model_info.port, method, path, up, disc)
    IN  IF status_data.raised
        THEN Outcome(Unhandled, icache, ecache, <<>>, {})
        ELSE IF lookup # Live
        THEN Outcome(lookup, icache, ecache, <<>>, {})
        ELSE IF static.found
        THEN Outcome(static.reply, static.icache, ecache, <<>>, static.touched)
        ELSE Outcome(fwd.reply, static.icache, fwd.ecache, fwd.calls, static.touched)

---------------------------------------------------------------------------
(* health_check, main.py:509-540, and get_model_endpoints, main.py:543-590 *)

\* main.py:520 and 555
NotRunning(model_info) == model_info.status # "success" \/ model_info.port = NoPort

\* mutant: only a server error counts as unhealthy
health_check_Below500(file, icache, ecache, model_name, probe) ==
    LET status_data == load_model_status(file)
        model_info == status_data.models[model_name]
        call == <<Call("probe", model_info.port, "GET", RootPath)>>
    IN  IF status_data.raised
        THEN Outcome(Unhandled, icache, ecache, <<>>, {})
        ELSE IF ~model_info.present
        THEN Outcome(HTTPException(404, "not found"), icache, ecache, <<>>, {})
        ELSE IF NotRunning(model_info)
        THEN Outcome(Json("unhealthy", <<Text("not running")>>, <<>>),
                     icache, ecache, <<>>, {})
        ELSE IF probe.kind = "response"
        THEN Outcome(Json(IF probe.status < 500 THEN "healthy" ELSE "unhealthy",
                          <<>>, <<>>),
                     icache, ecache, call, {})
        ELSE Outcome(Json("unhealthy", <<Text("connection failed"), Text(probe.error)>>,
                          <<>>),
                     icache, ecache, call, {})

\* health_check; probe is what the backend does with GET /
health_check(file, icache, ecache, model_name, probe) ==
    LET status_data == load_model_status(file)
        model_info == status_data.models[model_name]
        call == <<Call("probe", model_info.port, "GET", RootPath)>>
    IN  IF status_data.raised
        THEN Outcome(Unhandled, icache, ecache, <<>>, {})
        ELSE IF ~model_info.present
        THEN Outcome(HTTPException(404, "not found"), icache, ecache, <<>>, {})
        ELSE IF NotRunning(model_info)
        THEN Outcome(Json("unhealthy", <<Text("not running")>>, <<>>),
                     icache, ecache, <<>>, {})
        ELSE IF probe.kind = "response"
        THEN Outcome(Json(IF probe.status < 400 THEN "healthy" ELSE "unhealthy",
                          <<>>, <<>>),
                     icache, ecache, call, {})
        ELSE Outcome(Json("unhealthy", <<Text("connection failed"), Text(probe.error)>>,
                          <<>>),
                     icache, ecache, call, {})

\* main.py:578-586
DefaultEndpoints ==
    << Endpoint(<<"/">>, "GET"), Endpoint(<<"/", "style-css">>, "GET"),
       Endpoint(<<"/", "main-js">>, "GET"), Endpoint(<<"/", "config">>, "GET"),
       Endpoint(<<"/", "infer", "/">>, "POST"),
       Endpoint(<<"/", "infer-csv", "/">>, "POST"),
       Endpoint(<<"/", "docs">>, "GET") >>

\* get_model_endpoints; disc is what the backend does with GET /openapi.json
get_model_endpoints(file, icache, ecache, model_name, disc) ==
    LET status_data == load_model_status(file)
        model_info == status_data.models[model_name]
        call == <<Call("manifest", model_info.port, "GET", OpenApiPath)>>
        eps == [i \in DOMAIN disc.routes |->
                   Endpoint(disc.routes[i].path, Upper(disc.routes[i].method))]
    IN  IF status_data.raised
        THEN Outcome(Unhandled, icache, ecache, <<>>, {})
        ELSE IF ~model_info.present
        THEN Outcome(HTTPException(404, "not found"), icache, ecache, <<>>, {})
        ELSE IF NotRunning(model_info)
        THEN Outcome(Json("model not running", <<>>, <<>>), icache, ecache, <<>>, {})
        ELSE IF disc.kind # "response"
        THEN Outcome(Json("error", <<Text(disc.kind)>>, <<>>), icache, ecache, call, {})
        ELSE IF disc.status # 200
        THEN Outcome(Json("default endpoints", <<>>, DefaultEndpoints),
                     icache, ecache, call, {})
        ELSE IF ~disc.wellformed
        THEN Outcome(Json("error", <<Text("malformed")>>, <<>>), icache, ecache, call, {})
        ELSE Outcome(Json("available", <<>>, eps), icache, ecache, call, {})

---------------------------------------------------------------------------
(* validate_model_sequence, utils/config.py:81-96 *)

\* a stage of MODEL_SEQUENCE; input_features and output_template are lists of
\* <<name, type>> declarations
Stage(input_features, output_template) ==
    [input_features |-> input_features, output_template |-> output_template]

\* mutant: the outputs of a stage are compared with the inputs of every later
\* stage
validate_model_sequence_AnyLaterStage(MODEL_SEQUENCE) ==
    [raised |->
        \E i \in 1..(Len(MODEL_SEQUENCE) - 1), k \in 2..Len(MODEL_SEQUENCE) :
            /\ i < k
            /\ LET current_outputs == DictItems(MODEL_SEQUENCE[i].output_template, 1)
                   next_inputs == DictItems(MODEL_SEQUENCE[k].input_features, 1)
               IN \E o \in DOMAIN current_outputs, n \in DOMAIN next_inputs :
                     /\ current_outputs[o][1] = next_inputs[n][1]
                     /\ current_outputs[o][2] # next_inputs[n][2]]

\* raised: ValueError at config.py:94; otherwise True is returned.  The two
\* dicts of config.py:87-88 hold, for a name declared twice, its last type.
validate_model_sequence(MODEL_SEQUENCE) ==
    [raised |->
        \E i \in 1..(Len(MODEL_SEQUENCE) - 1) :
            LET current_outputs == DictItems(MODEL_SEQUENCE[i].output_template, 1)
                next_inputs == DictItems(MODEL_SEQUENCE[i + 1].input_features, 1)
            IN \E o \in DOMAIN current_outputs, n \in DOMAIN next_inputs :
                  /\ current_outputs[o][1] = next_inputs[n][1]
                  /\ current_outputs[o][2] # next_inputs[n][2]]

---------------------------------------------------------------------------
(* verify_types, utils/verification.py:3-53 *)

\* Python values: py is the type, data what the value holds (the characters
\* of a str or bytes, the items of a list, the items of a dict by key)
Py(py, data) == [py |-> py, data |-> data]

NoData == <<>>

\* isinstance(v, (int, float)) and isinstance(v, int): bool is a subclass of int
IsNumber(v) == v.py \in {"int", "float", "bool"}
IsInt(v) == v.py \in {"int", "bool"}

Base64Alphabet == {"a", "G", "k", "g", "+", "/"}

\* base64.b64decode(chars, validate=True) returns: the length is a multiple of
\* four, at most two "=" and only at the end, every other character in the
\* alphabet
Base64Decodes(chars) ==
    /\ Len(chars) % 4 = 0
    /\ \A i \in DOMAIN chars :
          \/ chars[i] \in Base64Alphabet
          \/ /\ chars[i] = "="
             /\ i > Len(chars) - 2
             /\ \A j \in i..Len(chars) : chars[j] = "="

\* mutant: the lengths of x and y are not compared
PlotError_NoLengthCheck(value) ==
    IF value.py # "dict" THEN "must be a dict"
    ELSE IF ~({"x", "y", "x_label", "y_label"} \subseteq DOMAIN value.data)
    THEN "must contain keys"
    ELSE IF value.data["x"].py # "list"
            \/ \E i \in DOMAIN value.data["x"].data : ~IsNumber(value.data["x"].data[i])
    THEN "x must be a list of numbers"
    ELSE IF value.data["y"].py # "list"
            \/ \E i \in DOMAIN value.data["y"].data : ~IsNumber(value.data["y"].data[i])
    THEN "y must be a list of numbers"
    ELSE IF value.data["x_label"].py # "str" THEN "x_label must be a string"
    ELSE IF value.data["y_label"].py # "str" THEN "y_label must be a string"
    ELSE ""

\* verification.py:37-51: the message of the ValueError raised for the value of
\* a plot record, "" if none is raised
PlotError(value) ==
    IF value.py # "dict" THEN "must be a dict"
    ELSE IF ~({"x", "y", "x_label", "y_label"} \subseteq DOMAIN value.data)
    THEN "must contain keys"
    ELSE IF value.data["x"].py # "list"
            \/ \E i \in DOMAIN value.data["x"].data : ~IsNumber(value.data["x"].data[i])
    THEN "x must be a list of numbers"
    ELSE IF value.data["y"].py # "list"
            \/ \E i \in DOMAIN value.data["y"].data : ~IsNumber(value.data["y"].data[i])
    THEN "y must be a list of numbers"
    ELSE IF Len(value.data["x"].data) # Len(value.data["y"].data)
    THEN "x and y must be of the same length"
    ELSE IF value.data["x_label"].py # "str" THEN "x_label must be a string"
    ELSE IF value.data["y_label"].py # "str" THEN "y_label must be a string"
    ELSE ""

supported_types == {"image", "float", "int", "string", "plot"}

\* verification.py:6-51 for one row (a dict): the message of the ValueError
\* raised, "" if none is raised
RowError(row) ==
    IF "type" \notin DOMAIN row THEN "Missing 'type' key in row"
    ELSE IF "name" \notin DOMAIN row THEN "Missing 'name' key in row"
    ELSE IF "value" \notin DOMAIN row THEN "Missing 'value' key in row"
    ELSE IF row["type"] \notin supported_types THEN "Unsupported type"
    ELSE CASE row["type"] = "image" ->
                IF row["value"].py \notin {"str", "bytes"}
                THEN "must be a base64 string or bytes"
                ELSE IF ~Base64Decodes(row["value"].data)
                THEN "Invalid base64 encoding for image"
                ELSE ""
           [] row["type"] = "float" ->
                IF ~IsNumber(row["value"]) THEN "must be a float or int" ELSE ""
           [] row["type"] = "int" ->
                IF ~IsInt(row["value"]) THEN "must be an int" ELSE ""
           [] row["type"] = "string" ->
                IF row["value"].py # "str" THEN "must be a string" ELSE ""
           [] OTHER -> PlotError(row["value"])

\* verify_types: the rows are checked in order, the first error is raised
verify_types(needed_verify_list) ==
    LET bad == {i \in DOMAIN needed_verify_list : RowError(needed_verify_list[i]) # ""}
    IN IF bad = {} THEN [raised |-> FALSE, error |-> ""]
       ELSE [raised |-> TRUE,
             error |-> RowError(needed_verify_list[
                          CHOOSE i \in bad : \A j \in bad : i <= j])]

\* the validators' harness: the function applied, its argument, its outcome
NotValidating == [pc |-> "idle", op |-> "", input |-> <<>>, raised |-> FALSE]

---------------------------------------------------------------------------
(* run_infer and run_infer_single_model, utils/infer.py:21-117 *)

\* a feature record {"name": .., "type": .., "value": ..}
Feature(name, type, value) ==
    [k \in {"name", "type", "value"} |->
        CASE k = "name" -> name [] k = "type" -> type [] OTHER -> value]

\* an entry of an output template as config.py declares it: no "value"
Output(name, type) ==
    [k \in {"name", "type"} |-> IF k = "name" THEN name ELSE type]

\* one stage of MODEL_SEQUENCE as infer.py reads it
Model(id, input_features, output_template) ==
    [id |-> id, input_features |-> input_features, output_template |-> output_template]

\* the stage as validate_model_sequence reads it: names and types
AsStage(model) ==
    Stage([i \in DOMAIN model.input_features |->
              <<model.input_features[i]["name"], model.input_features[i]["type"]>>],
          [i \in DOMAIN model.output_template |->
              <<model.output_template[i]["name"], model.output_template[i]["type"]>>])

\* output["value"] = v
SetValue(output, v) ==
    [k \in DOMAIN output \cup {"value"} |-> IF k = "value" THEN v ELSE output[k]]

Predicted == Py("str", <<"predicted">>)

\* infer.py:62-67: x and y of four numbers each, two labels
PlaceholderPlot ==
    Py("dict", [k \in {"x", "y", "x_label", "y_label"} |->
                   IF k \in {"x", "y"}
                   THEN Py("list", <<Py("int", NoData), Py("int", NoData),
                                     Py("int", NoData), Py("int", NoData)>>)
                   ELSE Py("str", <<"axis">>)])

\* infer.py:55-67: the placeholder prediction written into one output
Populate(output) ==
    CASE output["type"] = "string" -> SetValue(output, Predicted)
      [] output["type"] = "float" -> SetValue(output, Py("float", NoData))
      [] output["type"] = "int" -> SetValue(output, Py("int", NoData))
      [] output["type"] = "plot" -> SetValue(output, PlaceholderPlot)
      [] OTHER -> output

\* infer.py:28-32: the position of the first stage that carries model_id
FindModel(MODEL_SEQUENCE, model_id) ==
    CHOOSE i \in DOMAIN MODEL_SEQUENCE :
        /\ MODEL_SEQUENCE[i].id = model_id
        /\ \A j \in DOMAIN MODEL_SEQUENCE : MODEL_SEQUENCE[j].id = model_id => i <= j

\* what one call of run_infer_single_model does: ran is the position of the
\* stage whose config was used, 0 when the input was refused
SingleRun(MODEL_SEQUENCE, model_input, model_id) ==
    LET input_raised == verify_types(model_input).raised
        ran == FindModel(MODEL_SEQUENCE, model_id)
        template == MODEL_SEQUENCE[ran].output_template
        results == [i \in DOMAIN template |-> Populate(template[i])]
    IN  IF input_raised
        THEN [input |-> model_input, input_raised |-> TRUE, ran |-> 0,
              results |-> <<>>, output_raised |-> FALSE]
        ELSE [input |-> model_input, input_raised |-> FALSE, ran |-> ran,
              results |-> results,
              output_raised |-> verify_types(results).raised]

\* MODEL_SEQUENCE after one call of run_infer_single_model. The list copy of
\* infer.py:53 is shallow: results holds the dicts of the stage's
\* output_template themselves, and the assignments of infer.py:56-69 are made
\* to them, before the verify_types of infer.py:73 and whether or not it
\* raises. A call whose input is refused at infer.py:25 changes nothing.
SequenceAfter(MODEL_SEQUENCE, model_input, model_id) ==
    LET run == SingleRun(MODEL_SEQUENCE, model_input, model_id)
    IN  IF run.input_raised THEN MODEL_SEQUENCE
        ELSE [MODEL_SEQUENCE EXCEPT ![run.ran].output_template = run.results]

\* output_dict[name], infer.py:94: the last record of that name
LastNamed(current_output, name) ==
    current_output[CHOOSE i \in DOMAIN current_output :
                      /\ current_output[i]["name"] = name
                      /\ \A j \in DOMAIN current_output :
                            current_output[j]["name"] = name => j <= i]

\* mutant: the configured default is taken whatever the previous stage gave
NextInput_DefaultsOnly(current_output, next_model_inputs) ==
    [i \in DOMAIN next_model_inputs |->
        Feature(next_model_inputs[i]["name"], next_model_inputs[i]["type"],
                next_model_inputs[i]["value"])]

\* infer.py:90-106
NextInput(current_output, next_model_inputs) ==
    [i \in DOMAIN next_model_inputs |->
        IF \E j \in DOMAIN current_output :
              current_output[j]["name"] = next_model_inputs[i]["name"]
        THEN LastNamed(current_output, next_model_inputs[i]["name"])
        ELSE Feature(next_model_inputs[i]["name"], next_model_inputs[i]["type"],
                     next_model_inputs[i]["value"])]

\* no run: pc is "idle"; a run is "checked" after the verify_types of
\* infer.py:81, then "returned", "raised" (a ValueError of verify_types left
\* run_infer) or "unbound" (return current_output with an empty sequence)
NotInferring ==
    [pc |-> "idle", MODEL_SEQUENCE |-> <<>>, model_input |-> <<>>, i |-> 0,
     current_input |-> <<>>, runs |-> <<>>]

---------------------------------------------------------------------------
(* get_model_display_info, main.py:88-141, and the home page, main.py:246-263 *)

\* what importing a sequence descriptor comes to: config.py:104-110 raises
\* out of the import when validate_model_sequence raises
SequenceDescriptor(MODEL_SEQUENCE) ==
    IF validate_model_sequence(MODEL_SEQUENCE).raised THEN "invalid" ELSE "sequence"

IsLetter(c) == c \in {"m", "M"}

UpperChar(c) == IF c = "m" THEN "M" ELSE c
LowerChar(c) == IF c = "M" THEN "m" ELSE c

\* model_key.replace("_", " ").title(), main.py:134
Title(model_key) ==
    LET spaced == [i \in DOMAIN model_key |->
                      IF model_key[i] = "_" THEN " " ELSE model_key[i]]
    IN [i \in DOMAIN spaced |->
           IF i = 1 \/ ~IsLetter(spaced[i - 1])
           THEN UpperChar(spaced[i]) ELSE LowerChar(spaced[i])]

\* model_status.get("status", "unknown")
StatusOf(entry) == IF entry.status = "" THEN "unknown" ELSE entry.status

\* main.py:101-125: the display info of a key whose config was loaded
ConfigDisplayInfo(model_key, entry, config_info) ==
    [key |-> model_key, status |-> StatusOf(entry), port |-> entry.port,
     folder_name |-> config_info.folder_name, type |-> config_info.type,
     model_name |-> <<"from", "config">>, model_version |-> "from config"]

\* main.py:128-138: the fallback
DefaultDisplayInfo(model_key, entry) ==
    [key |-> model_key, status |-> StatusOf(entry), port |-> entry.port,
     folder_name |-> model_key, type |-> "single",
     model_name |-> Title(model_key), model_version |-> "Unknown"]

\* the keys of the "models" map in the order of the document
KeyOrder == <<K1, K2>>

\* the loop of main.py:96-139 from the i-th key on; infos collects the display
\* infos in the order produced, scanned tells whether a call listed the models
\* directory
RECURSIVE DisplayLoop(_, _, _, _, _, _)
DisplayLoop(models, dir, cache, infos, scanned, i) ==
    IF i > Len(KeyOrder) THEN [infos |-> infos, cache |-> cache, scanned |-> scanned]
    ELSE IF ~models[KeyOrder[i]].present
    THEN DisplayLoop(models, dir, cache, infos, scanned, i + 1)
    ELSE LET loaded == load_model_config(cache, dir, KeyOrder[i])
             info == IF loaded.info.found
                     THEN ConfigDisplayInfo(KeyOrder[i], models[KeyOrder[i]], loaded.info)
                     ELSE DefaultDisplayInfo(KeyOrder[i], models[KeyOrder[i]])
         IN DisplayLoop(models, dir, loaded.cache, Append(infos, info),
                        scanned \/ loaded.scanned, i + 1)

\* get_model_display_info: single_models and sequence_models
get_model_display_info(file, dir, icache) ==
    LET status_data == load_model_status(file)
        looped == DisplayLoop(status_data.models, dir, icache, <<>>, FALSE, 1)
        IsSequence(info) == info.type = "sequence"
        IsSingle(info) == info.type # "sequence"
    IN [raised |-> status_data.raised,
        single_models |-> SelectSeq(looped.infos, IsSingle),
        sequence_models |-> SelectSeq(looped.infos, IsSequence),
        cache |-> looped.cache, scanned |-> looped.scanned]

\* home, main.py:246-263: the page lists the single models, then the sequences
home(file, dir, icache, ecache) ==
    LET shown == get_model_display_info(file, dir, icache)
    IN IF shown.raised
       THEN Outcome(Unhandled, icache, ecache, <<>>, {})
       ELSE Outcome(Reply(200, NoHeaders, shown.single_models \o shown.sequence_models,
                          "", "template"),
                    shown.cache, ecache, <<>>,
                    {"config_cache"} \cup (IF shown.scanned THEN {"models_dir"} ELSE {}))

---------------------------------------------------------------------------
(* The gateway as a state machine: one action per request, one for the     *)
(* external writer of the status document.                                 *)

NoManifest == Manifest("none", 0, FALSE, <<>>)

\* the request just served and what came of it; seen is the status document
\* as it was on disk when the request arrived (state, and the key's entry);
\* manifest is what the backend did with GET /openapi.json if the request
\* fetched it
Served(op, key, path, file, up, out) ==
    [op |-> op, key |-> key, path |-> path,
     seen |-> [state |-> file.state, entry |-> file.models[key]],
     upstream |-> up, manifest |-> NoManifest, request |-> NoInbound,
     sent |-> NoSent, reply |-> out.reply,
     calls |-> out.calls, touched |-> out.touched]

\* the calls of a kind among the outbound calls of a request
CallsOf(calls, kind) == {i \in DOMAIN calls : calls[i].kind = kind}

NoRequest ==
    [op |-> "none", key |-> K1, path |-> RootPath,
     seen |-> [state |-> "absent", entry |-> NoEntry],
     upstream |-> NoUpstream, manifest |-> NoManifest, request |-> NoInbound,
     sent |-> NoSent,
     reply |-> Reply(0, NoHeaders, <<>>, "", "none"),
     calls |-> <<>>, touched |-> {}]

RwIdle ==
    [pc |-> "idle", model_name |-> K1, endpoints |-> <<>>, content |-> <<>>,
     once |-> <<>>, twice |-> <<>>]

\* The external orchestrator writes one entry of model_status.json (creating
\* the document if need be), removes the file, or leaves it unreadable.  resp
\* is the observation of the last request served since the document was last
\* written: a write clears it.
WriteStatus(model_name, entry) ==
    LET models == [model_status.models EXCEPT ![model_name] = entry]
    IN  /\ Doc(models) # model_status
        /\ model_status' = Doc(models)
        /\ resp' = NoRequest
        /\ UNCHANGED <<fs, model_info_cache, model_endpoints_cache, rw, validation, pipeline, inflight>>

RemoveStatus ==
    /\ model_status # AbsentDoc
    /\ model_status' = AbsentDoc
    /\ resp' = NoRequest
    /\ UNCHANGED <<fs, model_info_cache, model_endpoints_cache, rw, validation, pipeline, inflight>>

GarbleStatus ==
    /\ model_status # UnreadableDoc
    /\ model_status' = UnreadableDoc
    /\ resp' = NoRequest
    /\ UNCHANGED <<fs, model_info_cache, model_endpoints_cache, rw, validation, pipeline, inflight>>

\* proxy_to_model as asyncio runs it: the code between two awaits is one
\* step, and the steps of different requests interleave. A request is in
\* phase Forward while it awaits client.request (main.py:340-347, timeout
\* 60 s) and in phase Rewrite from the moment it enters an HTML or JavaScript
\* branch: it awaits client.get inside get_model_endpoints_internal
\* (main.py:160, timeout 10 s) unless the key was cached. The requests are
\* GETs without a body, so that await request.body() (main.py:321) returns
\* at once. A request is recorded with what it has in hand: the reply of the
\* code before the forward (served), the backend's answer (upstream), the
\* outcome of its manifest fetch (manifest) and the endpoint list it got from
\* get_model_endpoints_internal (endpoints).
Flights == 1..MaxFlights

NoFlight ==
    [pc |-> "idle", key |-> K1, path |-> RootPath, port |-> NoPort,
     served |-> Reply(0, NoHeaders, <<>>, "", "none"),
     upstream |-> NoUpstream, manifest |-> NoManifest, endpoints |-> <<>>,
     trace |-> <<>>, wrote |-> FALSE]

\* backend: what GET /openapi.json of the backend returns when it answers
NoFlights == [backend |-> NoManifest, flights |-> [id \in Flights |-> NoFlight]]

\* main.py:367-369 and 474-476: the answer `up` takes a rewriting branch
NeedsEndpoints(up, path) ==
    /\ up.kind = "response"
    /\ IsHtml200(up) \/ IsJavascript(up, path)
    /\ Decodable(up.body)

\* main.py:268-316, the handler up to its first await: the reply it returns
\* there, or forwarded = TRUE
BeforeForward(file, dir, icache, model_name, path) ==
    LET status_data == load_model_status(file)
        model_info == status_data.models[model_name]
        lookup == Lookup(model_info)
        static == StaticAsset(icache, dir, model_name, path)
        answer(reply, cache, phases) ==
            [forwarded |-> FALSE, reply |-> reply, icache |-> cache, port |-> NoPort,
             trace |-> phases]
    IN  IF status_data.raised THEN answer(Unhandled, icache, <<"Lookup", "Respond">>)
        ELSE IF lookup # Live THEN answer(lookup, icache, <<"Lookup", "Respond">>)
        ELSE IF static.found
        THEN answer(static.reply, static.icache, <<"Lookup", "StaticAsset", "Respond">>)
        ELSE [forwarded |-> TRUE, reply |-> NoFlight.served, icache |-> static.icache,
              port |-> model_info.port, trace |-> <<"Lookup", "Forward">>]

\* main.py:349-506: the response of a request that has left the handler, built
\* from the backend's answer and the endpoint list the request got
FlightReply(f) ==
    IF f.upstream = NoUpstream THEN f.served
    ELSE Forward([k \in Keys |-> [cached |-> TRUE, endpoints |-> f.endpoints]],
                 f.key, f.port, "GET", f.path, f.upstream, NoManifest).reply

\* a request for /api/{model_name}/{path} arrives in a free slot
Arrive(id, model_name, path) ==
    /\ inflight.flights[id].pc \in {"idle", "Respond"}
    /\ \E out \in {BeforeForward(model_status, fs, model_info_cache, model_name, path)} :
          /\ inflight' =
                [inflight EXCEPT !.flights[id] =
                    [NoFlight EXCEPT
                        !.pc = IF out.forwarded THEN "Forward" ELSE "Respond",
                        !.key = model_name,
                        !.path = path,
                        !.port = out.port,
                        !.served = out.reply,
                        !.trace = out.trace]]
          /\ model_info_cache' = out.icache
    /\ UNCHANGED <<model_status, fs, model_endpoints_cache, resp, rw, validation, pipeline>>

\* main.py:340-372 and 501-506: client.request returned `up` or raised; the
\* request answers now unless it has to fetch the manifest first
Answered(id, up) ==
    /\ inflight.flights[id].pc = "Forward"
    /\ \E f \in {inflight.flights[id]} :
          \E rewrites \in {NeedsEndpoints(up, f.path)} :
              \E hit \in {rewrites /\ model_endpoints_cache[f.key].cached} :
                  inflight' =
                     [inflight EXCEPT !.flights[id] =
                         [f EXCEPT
                             !.pc = IF rewrites /\ ~hit THEN "Rewrite" ELSE "Respond",
                             !.upstream = up,
                             !.endpoints =
                                 IF hit
                                 THEN get_model_endpoints_internal(
                                         model_endpoints_cache, f.key, f.port,
                                         NoManifest).endpoints
                                 ELSE <<>>,
                             !.trace = f.trace \o
                                       (IF rewrites /\ ~hit THEN <<"Rewrite">>
                                        ELSE IF rewrites THEN <<"Rewrite", "Respond">>
                                        ELSE <<"Respond">>)]]
    /\ UNCHANGED <<model_status, fs, model_info_cache, model_endpoints_cache, resp, rw,
                   validation, pipeline>>

\* main.py:160-179: client.get of the manifest returned or raised; the list is
\* stored if it was parsed, whatever the cache holds by now, and the request
\* goes on to rewrite and answer
ManifestArrived(id, disc) ==
    /\ inflight.flights[id].pc = "Rewrite"
    /\ \E f \in {inflight.flights[id]} :
          \E found \in {get_model_endpoints_internal(
                            [model_endpoints_cache EXCEPT ![f.key] = NoEndpoints],
                            f.key, f.port, disc)} :
              /\ inflight' =
                    [inflight EXCEPT !.flights[id] =
                        [f EXCEPT !.pc = "Respond",
                                  !.manifest = disc,
                                  !.endpoints = found.endpoints,
                                  !.trace = Append(f.trace, "Respond"),
                                  !.wrote = found.cache[f.key].cached]]
              /\ model_endpoints_cache' =
                    IF found.cache[f.key].cached THEN found.cache ELSE model_endpoints_cache
    /\ UNCHANGED <<model_status, fs, model_info_cache, resp, rw, validation, pipeline>>

\* POST /refresh, main.py:593-601: runs ./run_models.sh and waits for it; the
\* script restarts the backends and leaves model_status.json as `file`. The
\* handler answers 200 whether or not the script could be run and touches
\* neither cache.
Refresh(file) ==
    /\ model_status' = file
    /\ resp' = [NoRequest EXCEPT !.op = "refresh",
                                 !.reply = Reply(200, NoHeaders, <<>>, "", "gateway")]
    /\ UNCHANGED <<fs, model_info_cache, model_endpoints_cache, rw, validation, pipeline, inflight>>

\* what a proxied request leaves behind: the caches as the handler left them
\* and, when the request was forwarded, the request and what was sent for it
Observed(model_name, req, path, up, disc, out) ==
    \E forwarded \in {CallsOf(out.calls, "forward") # {}} :
        /\ resp' = [Served("proxy", model_name, path, model_status,
                           IF forwarded THEN up ELSE NoUpstream, out)
                       EXCEPT !.manifest = IF CallsOf(out.calls, "discovery") # {}
                                           THEN disc ELSE NoManifest,
                              !.request = IF forwarded THEN req ELSE NoInbound,
                              !.sent = IF forwarded THEN BuildRequest(req) ELSE NoSent]
        /\ model_info_cache' = out.icache
        /\ model_endpoints_cache' = out.ecache
        /\ UNCHANGED <<model_status, fs, rw, validation, pipeline, inflight>>

\* {GET,POST,...} /api/{model_name}/{path} with the inbound request req
ProxyRequest(model_name, req, path, up, disc) ==
    \E out \in {proxy_to_model(model_status, fs, model_info_cache,
                              model_endpoints_cache, model_name, req.method, path,
                              up, disc)} :
        Observed(model_name, req, path, up, disc, out)

\* the same for a request without query, headers or body
Proxy(model_name, method, path, up, disc) ==
    \E out \in {proxy_to_model(model_status, fs, model_info_cache,
                              model_endpoints_cache, model_name, method, path,
                              up, disc)} :
        Observed(model_name, PlainRequest(method), path, up, disc, out)

\* GET /
Home ==
    \E out \in {home(model_status, fs, model_info_cache, model_endpoints_cache)} :
        /\ resp' = Served("home", K1, RootPath, model_status, NoUpstream, out)
        /\ model_info_cache' = out.icache
        /\ UNCHANGED <<model_status, fs, model_endpoints_cache, rw, validation, pipeline, inflight>>

\* GET /health/{model_name}
Health(model_name, probe) ==
    \E out \in {health_check(model_status, model_info_cache, model_endpoints_cache,
                             model_name, probe)} :
        /\ resp' = Served("health", model_name, RootPath, model_status,
                          IF out.calls # <<>> THEN probe ELSE NoUpstream, out)
        /\ UNCHANGED <<model_status, fs, model_info_cache, model_endpoints_cache, rw, validation, pipeline, inflight>>

\* GET /endpoints/{model_name}
Endpoints(model_name, disc) ==
    \E out \in {get_model_endpoints(model_status, model_info_cache,
                                    model_endpoints_cache, model_name, disc)} :
        /\ resp' = [Served("endpoints", model_name, RootPath, model_status,
                           NoUpstream, out)
                       EXCEPT !.manifest = IF CallsOf(out.calls, "manifest") # {}
                                           THEN disc ELSE NoManifest]
        /\ UNCHANGED <<model_status, fs, model_info_cache, model_endpoints_cache, rw, validation, pipeline, inflight>>

\* run_infer(model_input) up to the loop, infer.py:76-84
InferStart ==
    /\ pipeline.pc = "called"
    /\ pipeline' =
          [pipeline EXCEPT
              !.pc = IF verify_types(pipeline.model_input).raised THEN "raised"
                     ELSE IF pipeline.MODEL_SEQUENCE = <<>> THEN "unbound"
                     ELSE "checked",
              !.i = 1,
              !.current_input = pipeline.model_input]
    /\ UNCHANGED <<model_status, fs, model_info_cache, model_endpoints_cache, resp, rw,
                 validation, inflight>>

\* one iteration of the loop of infer.py:84-115: stage i is given its input
\* and run; the return of infer.py:117 follows the last iteration
InferStage ==
    /\ pipeline.pc = "checked"
    /\ \E model_config \in {pipeline.MODEL_SEQUENCE[pipeline.i]} :
         \E run \in {SingleRun(pipeline.MODEL_SEQUENCE,
                               IF pipeline.i = 1 THEN pipeline.current_input
                               ELSE NextInput(pipeline.current_input,
                                              model_config.input_features),
                               model_config.id)} :
            pipeline' =
               [pipeline EXCEPT
                   !.pc = IF run.input_raised \/ run.output_raised THEN "raised"
                          ELSE IF pipeline.i = Len(pipeline.MODEL_SEQUENCE)
                          THEN "returned" ELSE "checked",
                   !.i = IF run.input_raised \/ run.output_raised THEN @ ELSE @ + 1,
                   !.current_input = IF run.input_raised \/ run.output_raised
                                     THEN @ ELSE run.results,
                   !.runs = Append(pipeline.runs, run),
                   !.MODEL_SEQUENCE =
                       IF run.input_raised THEN @
                       ELSE SequenceAfter(@, run.input, model_config.id)]
    /\ UNCHANGED <<model_status, fs, model_info_cache, model_endpoints_cache, resp, rw,
                 validation, inflight>>

---------------------------------------------------------------------------
(* Inputs of the gateway specification *)

Methods == {"GET", "POST"}

\* the page of the end-to-end scenario, with one link
PageBody == <<HeadOpen, HeadClose, Ref("href", <<"/", "x">>), BodyClose>>
BinaryBody == <<BadByte>>

ConnectError == Upstream("connect_error", 0, NoValue, <<>>, "")
TimeoutError == Upstream("timeout", 0, NoValue, <<>>, "")
OtherError == Upstream("other_error", 0, NoValue, <<>>, "boom")
HtmlPage == Upstream("response", 200, TextHtml, PageBody, "")

Route(p, m) == [path |-> p, method |-> m]

ManifestTimeout == Manifest("timeout", 0, FALSE, <<>>)
ManifestOk == Manifest("response", 200, TRUE, <<Route(<<"/", "x">>, "get")>>)

Probes ==
    { ConnectError, OtherError,
      Upstream("response", 200, TextHtml, <<>>, ""),
      Upstream("response", 399, NoValue, <<>>, ""),
      Upstream("response", 400, NoValue, <<>>, "") }

LookupPaths == {RootPath, LogoPng}
LookupUpstreams == {ConnectError, HtmlPage}
LookupManifests == {ManifestTimeout, ManifestOk}

Init ==
    /\ pipeline = NotInferring
    /\ inflight = NoFlights
    /\ model_status = AbsentDoc
    /\ fs = FullDir
    /\ model_info_cache = EmptyInfoCache
    /\ model_endpoints_cache = EmptyEndpointsCache
    /\ resp = NoRequest
    /\ rw = RwIdle
    /\ validation = NotValidating

Next ==
    \/ \E k \in Keys, e \in Entries : WriteStatus(k, e)
    \/ RemoveStatus
    \/ GarbleStatus
    \/ \E k \in Keys, m \in Methods, p \in LookupPaths, up \in LookupUpstreams,
          d \in LookupManifests : Proxy(k, m, p, up, d)
    \/ \E k \in Keys, probe \in Probes : Health(k, probe)
    \/ \E k \in Keys, d \in LookupManifests : Endpoints(k, d)

Spec == Init /\ [][Next]_vars

---------------------------------------------------------------------------
(* The forwarding specification: every backend is live, the models          *)
(* directory is any of FsPool, and the requests range over more sub-paths   *)
(* and backend behaviours.                                                  *)

LiveEntry == [present |-> TRUE, status |-> "success", port |-> 9001]
LiveDoc == Doc([k \in Keys |-> LiveEntry])

ProxyPaths == {RootPath, LogoPng, LogoPngUpper, AppJs, DataBin, DottedDir, StyleCss}

\* a 302 with a Location header
Redirect ==
    [Upstream("response", 302, TextHtml, <<>>, "")
        EXCEPT !.headers = ("location" :> <<"/", "login">>) @@ @]

Upstreams ==
    { ConnectError, TimeoutError, OtherError, HtmlPage, Redirect,
      Upstream("response", 404, TextHtml, PageBody, ""),
      Upstream("response", 200, ImagePng, BinaryBody, ""),
      Upstream("response", 200, AppJson, PageBody, ""),
      Upstream("response", 200, TextCss, PageBody, "") }

InitForward ==
    /\ pipeline = NotInferring
    /\ inflight = NoFlights
    /\ model_status = LiveDoc
    /\ fs \in FsPool
    /\ model_info_cache = EmptyInfoCache
    /\ model_endpoints_cache = EmptyEndpointsCache
    /\ resp = NoRequest
    /\ rw = RwIdle
    /\ validation = NotValidating

NextForward ==
    \E k \in Keys, p \in ProxyPaths, up \in Upstreams, d \in LookupManifests :
        Proxy(k, "GET", p, up, d)

SpecForward == InitForward /\ [][NextForward]_vars

---------------------------------------------------------------------------
(* The HTML specification: one live backend without local files answers    *)
(* GET / with HTML documents made of up to MaxBodyLen items.               *)

Link == Ref("href", <<"/", "x">>)
BodyItems == {HeadOpen, HeadClose, BodyClose, BadByte, Link}
HtmlBodies == SeqsUpTo(BodyItems, MaxBodyLen)

HtmlUpstreams ==
    {Upstream("response", 200, TextHtml, b, "") : b \in HtmlBodies}
    \cup { Upstream("response", 200, TextHtmlUtf8, PageBody, ""),
           Upstream("response", 404, TextHtml, PageBody, ""),
           Upstream("response", 200, NoValue, PageBody, "") }

InitHtml ==
    /\ pipeline = NotInferring
    /\ inflight = NoFlights
    /\ model_status = LiveDoc
    /\ fs = Dir(NoFolder, "none", {}, {})
    /\ model_info_cache = EmptyInfoCache
    /\ model_endpoints_cache = EmptyEndpointsCache
    /\ resp = NoRequest
    /\ rw = RwIdle
    /\ validation = NotValidating

NextHtml ==
    \E up \in HtmlUpstreams, d \in LookupManifests : Proxy(K1, "GET", RootPath, up, d)

SpecHtml == InitHtml /\ [][NextHtml]_vars

---------------------------------------------------------------------------
(* The request specification: a live backend is sent requests with up to    *)
(* MaxPairs query parameters or up to MaxPairs headers.                     *)

QueryPairs == {<<"tag", "a">>, <<"tag", "b">>, <<"page", "1">>}

HeaderPairs ==
    { <<"host", "gateway">>, <<"accept-encoding", "gzip">>,
      <<"accept-language", "en">>, <<"accept-language", "de">> }

Bodies == {<<>>, <<Text("payload")>>}

Requests ==
    {Request(m, q, <<>>, b) : m \in Methods, q \in SeqsUpTo(QueryPairs, MaxPairs),
                              b \in Bodies}
    \cup {Request(m, <<>>, h, b) : m \in Methods, h \in SeqsUpTo(HeaderPairs, MaxPairs),
                                   b \in Bodies}

JsonReply == Upstream("response", 200, AppJson, <<>>, "")

InitRequest ==
    /\ pipeline = NotInferring
    /\ inflight = NoFlights
    /\ model_status = LiveDoc
    /\ fs = Dir(NoFolder, "none", {}, {})
    /\ model_info_cache = EmptyInfoCache
    /\ model_endpoints_cache = EmptyEndpointsCache
    /\ resp = NoRequest
    /\ rw = RwIdle
    /\ validation = NotValidating

NextRequest ==
    \E req \in Requests, up \in {JsonReply, ConnectError} :
        ProxyRequest(K1, req, RootPath, up, ManifestTimeout)

SpecRequest == InitRequest /\ [][NextRequest]_vars

---------------------------------------------------------------------------
(* The rewriter specification: rewrite_urls_in_content is applied, and then *)
(* applied again to its own output, for a mount key, a list of up to        *)
(* MaxPaths known endpoint paths and a payload of one reference (the passes *)
(* act on each reference of a payload independently of the others).         *)

KnownPaths ==
    { <<"/">>, <<"/", "x">>, <<"/", "x", "/">>, <<"/", "/", "x">>, <<"x">>,
      <<"/", "api", "/", "x">>, MountPrefix(K1) \o <<"/", "x">> }

RefValues ==
    KnownPaths \cup
    { <<"/", "api">>, MountPrefix(K1) \o <<"/", "x", "/">>,
      MountPrefix(K1) \o <<"/", "/", "x">> }

Payloads == {<<Ref(c, v)>> : c \in RefCtx, v \in RefValues}

EndpointLists ==
    {[i \in DOMAIN ps |-> Endpoint(ps[i], "GET")] : ps \in SeqsUpTo(KnownPaths, MaxPaths)}

InitRewrite ==
    /\ pipeline = NotInferring
    /\ inflight = NoFlights
    /\ model_status = AbsentDoc
    /\ fs = FullDir
    /\ model_info_cache = EmptyInfoCache
    /\ model_endpoints_cache = EmptyEndpointsCache
    /\ resp = NoRequest
    /\ rw \in [pc : {"input"}, model_name : Keys, endpoints : EndpointLists,
               content : Payloads, once : {<<>>}, twice : {<<>>}]
    /\ validation = NotValidating

RewriteOnce ==
    /\ rw.pc = "input"
    /\ rw' = [rw EXCEPT !.pc = "once",
                        !.once = rewrite_urls_in_content(rw.content, rw.model_name,
                                                         rw.endpoints)]
    /\ UNCHANGED <<model_status, fs, model_info_cache, model_endpoints_cache, resp,
                 validation, pipeline, inflight>>

RewriteTwice ==
    /\ rw.pc = "once"
    /\ rw' = [rw EXCEPT !.pc = "twice",
                        !.twice = rewrite_urls_in_content(rw.once, rw.model_name,
                                                          rw.endpoints)]
    /\ UNCHANGED <<model_status, fs, model_info_cache, model_endpoints_cache, resp,
                 validation, pipeline, inflight>>

NextRewrite == RewriteOnce \/ RewriteTwice

SpecRewrite == InitRewrite /\ [][NextRewrite]_vars

---------------------------------------------------------------------------
(* The discovery specification: live backends answer proxied requests with  *)
(* HTML, JavaScript and JSON, and GET /openapi.json in every way a manifest  *)
(* fetch can end; the endpoints listing is requested in between.            *)

JsBody == <<Ref("fetch_dq_args", <<"/", "x">>), Ref("fetch_dq", <<"/", "y">>)>>

JsFile == Upstream("response", 200, AppJavascript, JsBody, "")

DiscoveryUpstreams ==
    { HtmlPage, JsFile,
      Upstream("response", 404, AppJavascript, JsBody, ""),
      Upstream("response", 200, AppJson, <<>>, ""),
      Upstream("response", 500, TextHtml, PageBody, "") }

DiscoveryPaths == {RootPath, MainJs}

ManifestConnect == Manifest("connect_error", 0, FALSE, <<>>)
ManifestNon200 == Manifest("response", 500, TRUE, <<Route(<<"/", "x">>, "get")>>)
ManifestMalformed == Manifest("response", 200, FALSE, <<>>)
ManifestEmpty == Manifest("response", 200, TRUE, <<>>)

Manifests ==
    { ManifestTimeout, ManifestConnect, ManifestNon200, ManifestMalformed,
      ManifestOk, ManifestEmpty }

InitDiscovery ==
    /\ pipeline = NotInferring
    /\ inflight = NoFlights
    /\ model_status = LiveDoc
    /\ fs = Dir(NoFolder, "none", {}, {})
    /\ model_info_cache = EmptyInfoCache
    /\ model_endpoints_cache = EmptyEndpointsCache
    /\ resp = NoRequest
    /\ rw = RwIdle
    /\ validation = NotValidating

NextDiscovery ==
    \/ \E k \in Keys, p \in DiscoveryPaths, up \in DiscoveryUpstreams, d \in Manifests :
          Proxy(k, "GET", p, up, d)
    \/ \E k \in Keys, d \in Manifests : Endpoints(k, d)

SpecDiscovery == InitDiscovery /\ [][NextDiscovery]_vars

---------------------------------------------------------------------------
(* The cache specification: pages and scripts are requested while the       *)
(* backends are restarted on other ports, fail, disappear from the status   *)
(* document, and while /refresh is called.                                  *)

CachePorts == {9001, 9002}

CacheEntries ==
    {NoEntry} \cup [present : {TRUE}, status : {"success", "failed"}, port : CachePorts]

\* what run_models.sh can leave behind
RefreshedDocs ==
    {AbsentDoc} \cup {Doc([k \in Keys |-> e]) : e \in CacheEntries \ {NoEntry}}

CacheManifests == {ManifestTimeout, ManifestNon200, ManifestOk, ManifestEmpty}

InitCache ==
    /\ pipeline = NotInferring
    /\ inflight = NoFlights
    /\ model_status = LiveDoc
    /\ fs = Dir(NoFolder, "none", {}, {})
    /\ model_info_cache = EmptyInfoCache
    /\ model_endpoints_cache = EmptyEndpointsCache
    /\ resp = NoRequest
    /\ rw = RwIdle
    /\ validation = NotValidating

NextCache ==
    \/ \E k \in Keys, p \in DiscoveryPaths, up \in {HtmlPage, JsFile}, d \in CacheManifests :
          Proxy(k, "GET", p, up, d)
    \/ \E k \in Keys, e \in CacheEntries : WriteStatus(k, e)
    \/ \E file \in RefreshedDocs : Refresh(file)

SpecCache == InitCache /\ [][NextCache]_vars

---------------------------------------------------------------------------
(* The in-flight specification: up to MaxFlights proxied requests are       *)
(* served at the same time by the one event loop; the backend's manifest    *)
(* does not change, and every outbound call returns or runs into its        *)
(* timeout.                                                                 *)

FlightDocs == {LiveDoc, Doc([k \in Keys |-> IF k = K1 THEN LiveEntry ELSE NoEntry])}

FlightPaths == {RootPath, LogoPng}

FlightUpstreams == {HtmlPage, TimeoutError, ConnectError, OtherError}

FlightManifests == {ManifestOk, ManifestMalformed}

InitFlight ==
    /\ pipeline = NotInferring
    /\ inflight \in [backend : FlightManifests, flights : {NoFlights.flights}]
    /\ model_status \in FlightDocs
    /\ fs = FullDir
    /\ model_info_cache = EmptyInfoCache
    /\ model_endpoints_cache = EmptyEndpointsCache
    /\ resp = NoRequest
    /\ rw = RwIdle
    /\ validation = NotValidating

\* the manifest fetch gets the backend's manifest or runs into its timeout
ManifestOutcomes == {d \in FlightManifests \cup {ManifestTimeout} :
                        d \in {inflight.backend, ManifestTimeout}}

NextFlight ==
    \/ \E id \in Flights, k \in Keys, p \in FlightPaths : Arrive(id, k, p)
    \/ \E id \in Flights, up \in FlightUpstreams : Answered(id, up)
    \/ \E id \in Flights, d \in ManifestOutcomes : ManifestArrived(id, d)

SpecFlight == InitFlight /\ [][NextFlight]_vars

\* the timeouts of main.py:346 and main.py:160: a call that has not returned
\* raises httpx.TimeoutException after 60 s or 10 s
FlightFairness ==
    \A id \in Flights :
        /\ WF_vars(Answered(id, TimeoutError))
        /\ WF_vars(ManifestArrived(id, ManifestTimeout))

SpecFlightFair == InitFlight /\ [][NextFlight]_vars /\ FlightFairness

---------------------------------------------------------------------------
(* The sequence specification: validate_model_sequence is applied to model  *)
(* sequences of up to MaxStages stages.                                     *)

ScoreFloat == <<"score", "float">>
ScoreInt == <<"score", "int">>

OutputTemplates ==
    {<<>>, <<ScoreFloat>>, <<ScoreFloat, ScoreInt>>, <<<<"label", "string">>>>}

InputFeatures == {<<>>, <<ScoreInt>>, <<ScoreFloat>>, <<ScoreInt, ScoreFloat>>}

Stages == {Stage(i, o) : i \in InputFeatures, o \in OutputTemplates}

InitSequence ==
    /\ pipeline = NotInferring
    /\ inflight = NoFlights
    /\ model_status = AbsentDoc
    /\ fs = FullDir
    /\ model_info_cache = EmptyInfoCache
    /\ model_endpoints_cache = EmptyEndpointsCache
    /\ resp = NoRequest
    /\ rw = RwIdle
    /\ validation \in [pc : {"input"}, op : {"validate_model_sequence"},
                       input : SeqsUpTo(Stages, MaxStages), raised : {FALSE}]

ValidateSequence ==
    /\ validation.pc = "input"
    /\ validation.op = "validate_model_sequence"
    /\ validation' = [validation EXCEPT
                         !.pc = "done",
                         !.raised = validate_model_sequence(validation.input).raised]
    /\ UNCHANGED <<model_status, fs, model_info_cache, model_endpoints_cache, resp, rw, pipeline, inflight>>

NextSequence == ValidateSequence

SpecSequence == InitSequence /\ [][NextSequence]_vars

---------------------------------------------------------------------------
(* The records specification: verify_types is applied to lists of up to     *)
(* MaxRows feature records.                                                 *)

StrBase64 == Py("str", <<"a", "G", "k", "=">>)
StrPlain == Py("str", <<"h", "i">>)
BytesBase64 == Py("bytes", <<"a", "G", "k", "g">>)
AFloat == Py("float", NoData)
AnInt == Py("int", NoData)
ABool == Py("bool", NoData)
AList(items) == Py("list", items)

Plot(x, y, x_label, y_label) ==
    Py("dict", [k \in {"x", "y", "x_label", "y_label"} |->
                   CASE k = "x" -> x [] k = "y" -> y
                     [] k = "x_label" -> x_label [] OTHER -> y_label])

GoodPlot == Plot(AList(<<AnInt, AFloat>>), AList(<<AnInt, AnInt>>), StrPlain, StrPlain)
UnequalPlot == Plot(AList(<<AnInt, AnInt>>), AList(<<AnInt>>), StrPlain, StrPlain)
TextPlot == Plot(AList(<<StrPlain>>), AList(<<AnInt>>), StrPlain, StrPlain)
IntLabelPlot == Plot(AList(<<>>), AList(<<>>), StrPlain, AnInt)
UnequalIntLabelPlot == Plot(AList(<<AnInt>>), AList(<<>>), AnInt, StrPlain)
NoLabelPlot == Py("dict", [k \in {"x", "y"} |-> AList(<<AnInt>>)])

Values ==
    { StrBase64, StrPlain, BytesBase64, AFloat, AnInt, ABool, GoodPlot, UnequalPlot,
      TextPlot, IntLabelPlot, UnequalIntLabelPlot, NoLabelPlot }

Row(type, value) ==
    [k \in {"name", "type", "value"} |->
        CASE k = "name" -> "x" [] k = "type" -> type [] OTHER -> value]

Without(row, key) == [k \in DOMAIN row \ {key} |-> row[k]]

Rows ==
    {Row(t, v) : t \in supported_types \cup {"bool"}, v \in Values}
    \cup {Without(Row("float", AFloat), k) : k \in {"name", "type", "value"}}

InitRecords ==
    /\ pipeline = NotInferring
    /\ inflight = NoFlights
    /\ model_status = AbsentDoc
    /\ fs = FullDir
    /\ model_info_cache = EmptyInfoCache
    /\ model_endpoints_cache = EmptyEndpointsCache
    /\ resp = NoRequest
    /\ rw = RwIdle
    /\ validation \in [pc : {"input"}, op : {"verify_types"},
                       input : SeqsUpTo(Rows, MaxRows), raised : {FALSE}]

VerifyTypes ==
    /\ validation.pc = "input"
    /\ validation.op = "verify_types"
    /\ validation' = [validation EXCEPT
                         !.pc = "done",
                         !.raised = verify_types(validation.input).raised]
    /\ UNCHANGED <<model_status, fs, model_info_cache, model_endpoints_cache, resp, rw, pipeline, inflight>>

NextRecords == VerifyTypes

SpecRecords == InitRecords /\ [][NextRecords]_vars

---------------------------------------------------------------------------
(* The config specification: the home page and proxied requests for local   *)
(* files against every state of the models directory, a sequence descriptor *)
(* with a stage type mismatch included.                                     *)

MismatchSequence == <<Stage(<<>>, <<ScoreFloat>>), Stage(<<ScoreInt>>, <<>>)>>
MatchingSequence == <<Stage(<<>>, <<ScoreFloat>>), Stage(<<ScoreFloat>>, <<>>)>>

ConfigDirs ==
    FsPool \cup
    { Dir(Folder1, SequenceDescriptor(MismatchSequence), {LogoPng}, {}),
      Dir(Folder1, SequenceDescriptor(MatchingSequence), {LogoPng}, {}) }

ConfigDocs ==
    { LiveDoc,
      Doc([k \in Keys |-> IF k = K1 THEN LiveEntry
                          ELSE [present |-> TRUE, status |-> "", port |-> NoPort]]) }

InitConfig ==
    /\ pipeline = NotInferring
    /\ inflight = NoFlights
    /\ model_status \in ConfigDocs
    /\ fs \in ConfigDirs
    /\ model_info_cache = EmptyInfoCache
    /\ model_endpoints_cache = EmptyEndpointsCache
    /\ resp = NoRequest
    /\ rw = RwIdle
    /\ validation = NotValidating

NextConfig ==
    \/ Home
    \/ \E k \in Keys, p \in {RootPath, LogoPng, AppJs}, up \in {HtmlPage, ConnectError} :
          Proxy(k, "GET", p, up, ManifestTimeout)

SpecConfig == InitConfig /\ [][NextConfig]_vars

---------------------------------------------------------------------------
(* The inference specification: run_infer is called with an input list on   *)
(* model sequences of up to MaxStages stages that pass the validation of    *)
(* config.py on import.                                                     *)

\* the default of the float feature is an int, which verify_types accepts
InferInputs ==
    { <<Feature("a", "float", Py("int", NoData))>>,
      <<Feature("a", "float", Py("int", NoData)),
        Feature("img", "image", Py("str", <<"h", "i">>))>> }

InferTemplates ==
    { <<Output("a", "float"), Output("b", "string")>>,
      <<Output("a", "int"), Output("a", "float")>>,
      <<Output("img", "image")>> }

InferModels ==
    {Model(id, f, t) : id \in {"model_1", "model_2"}, f \in InferInputs,
                       t \in InferTemplates}

InferSequences ==
    {seq \in SeqsUpTo(InferModels, MaxStages) :
        ~validate_model_sequence([i \in DOMAIN seq |-> AsStage(seq[i])]).raised}

InitInfer ==
    /\ model_status = AbsentDoc
    /\ fs = FullDir
    /\ model_info_cache = EmptyInfoCache
    /\ model_endpoints_cache = EmptyEndpointsCache
    /\ resp = NoRequest
    /\ rw = RwIdle
    /\ validation = NotValidating
    /\ inflight = NoFlights
    /\ pipeline \in [pc : {"called"}, MODEL_SEQUENCE : InferSequences,
                     model_input : InferInputs, i : {0}, current_input : {<<>>},
                     runs : {<<>>}]

NextInfer == InferStart \/ InferStage

SpecInfer == InitInfer /\ [][NextInfer]_vars

---------------------------------------------------------------------------
(* Properties of the gateway specification *)

IsRequest == resp.op \in {"proxy", "health", "endpoints"}
Registered == resp.seen.state = "ok" /\ resp.seen.entry.present
IsLiveEntry(e) == e.present /\ e.status = "success" /\ e.port # NoPort

\* C1: a proxy request for a key that is in the status document with a status
\* other than "success" (a missing status included), or with status "success"
\* and no port, is answered 503 and issues no outbound call, whatever the
\* method and sub-path.
C1_NotLiveIs503 ==
    (resp.op = "proxy" /\ Registered /\ ~IsLiveEntry(resp.seen.entry))
        => (resp.reply.status = 503 /\ resp.calls = <<>>)

C1_Witness ==
    /\ resp.op = "proxy"
    /\ resp.path = LogoPng
    /\ Registered
    /\ resp.seen.entry.status = "success"
    /\ resp.seen.entry.port = NoPort
    /\ resp.reply.status = 503

\* C2: a proxy request for a key that is not in the models map of the status
\* document is answered 404, and neither the config cache, nor the models
\* directory or a local file, nor the backend is consulted.
C2_UnknownIs404 ==
    (resp.op = "proxy" /\ resp.seen.state = "ok" /\ ~resp.seen.entry.present)
        => /\ resp.reply.status = 404
           /\ resp.reply.source = "gateway"
           /\ resp.calls = <<>>
           /\ resp.touched = {}

C2_Witness ==
    /\ resp.op = "proxy"
    /\ resp.path = LogoPng
    /\ resp.seen.state = "ok"
    /\ ~resp.seen.entry.present
    /\ resp.reply.status = 404
    /\ \E k \in Keys : model_status.models[k].present

\* a request went on to the backend's files or port: a proxy request was served
\* from a local file or forwarded, a health or endpoints request contacted the
\* port of the entry
Proceeded ==
    CASE resp.op = "proxy" ->
           \/ resp.reply.source = "file" /\ resp.calls = <<>>
           \/ /\ resp.calls # <<>>
              /\ resp.calls[1].kind = "forward"
              /\ resp.calls[1].port = resp.seen.entry.port
      [] resp.op = "health" ->
           /\ Len(resp.calls) = 1
           /\ resp.calls[1].kind = "probe"
           /\ resp.calls[1].port = resp.seen.entry.port
      [] OTHER ->
           /\ Len(resp.calls) = 1
           /\ resp.calls[1].kind = "manifest"
           /\ resp.calls[1].port = resp.seen.entry.port

\* C9 as stated: every proxy, health and endpoints request decides 404 / 503 /
\* proceed from the status document as it is when the request arrives: 404 for
\* a key that is not in it, 503 for a key that is not live, and a request for
\* a live key is forwarded.
C9_Original ==
    (IsRequest /\ resp.seen.state = "ok")
        => CASE ~resp.seen.entry.present -> resp.reply.status = 404
             [] ~IsLiveEntry(resp.seen.entry) ->
                    resp.reply.status = 503 /\ resp.calls = <<>>
             [] OTHER -> resp.calls # <<>>

\* C9 as amended: the decision is taken from the status document as it is when
\* the request arrives.  A key that is not in it: 404.  A key that is not live:
\* no outbound call; a proxy request is answered 503, a health request 200
\* "unhealthy / not running", an endpoints request 200 "model not running".
\* A live key: the request proceeds (a proxy request is forwarded to the
\* entry's port unless the static-asset fast path serves it from a local
\* file; health and endpoints contact the entry's port).
C9_FreshDecision ==
    (IsRequest /\ resp.seen.state = "ok")
        => CASE ~resp.seen.entry.present ->
                    resp.reply.status = 404 /\ resp.calls = <<>>
             [] ~IsLiveEntry(resp.seen.entry) ->
                    /\ resp.calls = <<>>
                    /\ resp.op = "proxy" => resp.reply.status = 503
                    /\ resp.op = "health" =>
                          /\ resp.reply.source = "json"
                          /\ resp.reply.detail = "unhealthy"
                    /\ resp.op = "endpoints" =>
                          /\ resp.reply.source = "json"
                          /\ resp.reply.detail = "model not running"
             [] OTHER -> Proceeded

\* the key was live (its endpoints were cached by a forwarded request), its
\* status was then changed to failed, and the next proxy request got 503
C9_Witness ==
    /\ resp.op = "proxy"
    /\ Registered
    /\ resp.seen.entry.status = "failed"
    /\ resp.reply.status = 503
    /\ model_endpoints_cache[resp.key].cached

\* C10 as stated: with the status document absent or unreadable every request
\* is answered 404 (the registry is empty), never with an internal error.
C10_NoDocumentIs404 ==
    (IsRequest /\ resp.seen.state \in {"absent", "unreadable"})
        => resp.reply.status = 404

\* the probe of a health request was answered with a status below 400
ProbeOk ==
    /\ resp.upstream.kind = "response"
    /\ resp.upstream.status < 400

\* C13 as stated: a health request for any key always returns a result object,
\* healthy if and only if the backend is live and its root answered with a
\* status below 400, and unhealthy with a reason in every other case.
C13_Original ==
    resp.op = "health"
        => /\ resp.reply.source = "json"
           /\ resp.reply.detail = "healthy" <=> (IsLiveEntry(resp.seen.entry) /\ ProbeOk)
           /\ resp.reply.detail # "healthy"
                 => (resp.reply.detail = "unhealthy" /\ resp.reply.body # <<>>)

\* C13 as amended: with the status document read, a health request for a key
\* that is not registered is answered 404 without a probe; for a registered key
\* it returns a result object, healthy if and only if the backend is live and
\* its root answered with a status below 400, and unhealthy otherwise: with a
\* reason when the backend is not live (no probe) or the probe raised, and
\* without one when the probe was answered with a status of 400 or more.
C13_HealthResult ==
    (resp.op = "health" /\ resp.seen.state # "unreadable")
        => IF ~resp.seen.entry.present
           THEN /\ resp.reply.source = "gateway"
                /\ resp.reply.status = 404
                /\ resp.calls = <<>>
           ELSE /\ resp.reply.source = "json"
                /\ resp.reply.status = 200
                /\ resp.reply.detail = "healthy"
                      <=> (IsLiveEntry(resp.seen.entry) /\ ProbeOk)
                /\ resp.reply.detail # "healthy" => resp.reply.detail = "unhealthy"
                /\ ~IsLiveEntry(resp.seen.entry)
                      => (resp.calls = <<>> /\ resp.reply.body = <<Text("not running")>>)
                /\ IsLiveEntry(resp.seen.entry)
                      => /\ resp.calls
                               = <<Call("probe", resp.seen.entry.port, "GET", RootPath)>>
                         /\ resp.reply.body # <<>> <=> resp.upstream.kind # "response"

\* the root of a live backend answered 400: unhealthy, and no reason given
C13_Witness ==
    /\ resp.op = "health"
    /\ IsLiveEntry(resp.seen.entry)
    /\ resp.upstream.kind = "response"
    /\ resp.upstream.status = 400
    /\ resp.reply.detail = "unhealthy"
    /\ resp.reply.body = <<>>

---------------------------------------------------------------------------
(* Properties of the forwarding specification *)

\* the backend of the request has a loadable config: a folder of the models
\* directory matches the key and its descriptor loads
HasConfig ==
    /\ fs.folder # NoFolder
    /\ Normalize(fs.folder) = Normalize(resp.key)
    /\ fs.descriptor \in {"single", "sequence"}

Forwarded ==
    /\ resp.calls # <<>>
    /\ resp.calls[1] = Call("forward", resp.seen.entry.port, "GET", resp.path)

\* C7: for a live backend and a sub-path whose final segment has an extension
\* of the static list, a regular file at <backend folder>/<sub-path> is served
\* as the response, with the content type of the extension table and without
\* any outbound request; when the file is absent, or the backend has no
\* loadable config, the request is forwarded.
C7_StaticFastPath ==
    (resp.op = "proxy" /\ IsLiveEntry(resp.seen.entry) /\ LooksStatic(resp.path))
        => IF HasConfig /\ resp.path \in fs.files
           THEN /\ resp.reply.source = "file"
                /\ resp.reply.status = 200
                /\ resp.reply.body = <<Ref("file", fs.folder \o <<"/">> \o resp.path)>>
                /\ resp.reply.headers["content-type"]
                      = content_type_map[FileExtension(resp.path)]
                /\ resp.calls = <<>>
           ELSE Forwarded

\* logo.png is served as image/png without contacting the backend
C7_Witness ==
    /\ resp.op = "proxy"
    /\ resp.path = LogoPng
    /\ resp.reply.source = "file"
    /\ resp.reply.headers["content-type"] = ImagePng
    /\ resp.calls = <<>>

C14_SingleAttempt ==
    (resp.op = "proxy" /\ resp.upstream.kind # "none")
        => /\ Cardinality(CallsOf(resp.calls, "forward")) = 1
           /\ resp.calls[1] = Call("forward", resp.seen.entry.port, "GET", resp.path)
           /\ resp.upstream.kind # "response" => Len(resp.calls) = 1
           /\ (resp.upstream.kind = "response" /\ resp.upstream.status \in 300..399)
                 => /\ resp.reply.source = "backend"
                    /\ resp.reply.status = resp.upstream.status
                    /\ HeaderGet(resp.reply.headers, "location")
                          = HeaderGet(resp.upstream.headers, "location")

C14_Witness ==
    /\ resp.op = "proxy"
    /\ resp.upstream = Redirect
    /\ resp.reply.status = 302
    /\ resp.reply.headers["location"] = <<"/", "login">>
    /\ Len(resp.calls) = 1

\* the answer of the backend that was forwarded is neither text/html with
\* status 200 nor JavaScript by content type or by path
PassThroughCase ==
    /\ resp.op = "proxy"
    /\ resp.upstream.kind = "response"
    /\ LET content_type == HeaderGet(resp.upstream.headers, "content-type")
       IN /\ ~(Contains(content_type, "text/html") /\ resp.upstream.status = 200)
          /\ ~Contains(content_type, "application/javascript")
          /\ ~Contains(content_type, "text/javascript")
          /\ ~endswith(resp.path, <<".", "js">>)
          /\ resp.path # MainJs

\* C22: a forwarded response that is neither 200 text/html nor JavaScript
\* (CSS, JSON, binary, a non-200 HTML page) is returned with the backend's
\* body and status; the forward is the only outbound call (no discovery is
\* run) and no gateway block is added.
C22_PassThrough ==
    PassThroughCase
        => /\ resp.reply.source = "backend"
           /\ resp.reply.body = resp.upstream.body
           /\ resp.reply.status = resp.upstream.status
           /\ Len(resp.calls) = 1
           /\ CallsOf(resp.calls, "discovery") = {}
           /\ ~HasItem(resp.reply.body, StyleBlock)
           /\ ~HasItem(resp.reply.body, ScriptBlock)

\* a 404 HTML page with a link and the closing tags is returned as it came
C22_Witness ==
    /\ PassThroughCase
    /\ resp.upstream = Upstream("response", 404, TextHtml, PageBody, "")
    /\ resp.reply.body = PageBody
    /\ resp.reply.status = 404

---------------------------------------------------------------------------
(* Properties of the HTML specification *)

\* the backend answered 200 with a content type containing text/html
GotHtml200 ==
    /\ resp.op = "proxy"
    /\ resp.upstream.kind = "response"
    /\ resp.upstream.status = 200
    /\ Contains(HeaderGet(resp.upstream.headers, "content-type"), "text/html")

\* where the two blocks stand in the document `out` returned for the backend
\* body `in` (a line break separates a block from the tag it is placed at)
StylePlaced(in, out) ==
    IF HasItem(in, HeadClose)
    THEN /\ HasItem(out, HeadClose)
         /\ \A i \in DOMAIN out : out[i] = HeadClose =>
               i > 2 /\ out[i - 1] = Newline /\ out[i - 2] = StyleBlock
    ELSE IF HasItem(in, HeadOpen)
    THEN /\ HasItem(out, HeadOpen)
         /\ \A i \in DOMAIN out : out[i] = HeadOpen =>
               i + 2 <= Len(out) /\ out[i + 1] = Newline /\ out[i + 2] = StyleBlock
    ELSE out # <<>> /\ out[1] = StyleBlock

ScriptPlaced(in, out) ==
    IF HasItem(in, BodyClose)
    THEN /\ HasItem(out, BodyClose)
         /\ \A i \in DOMAIN out : out[i] = BodyClose =>
               i > 2 /\ out[i - 1] = Newline /\ out[i - 2] = ScriptBlock
    ELSE out # <<>> /\ out[Len(out)] = ScriptBlock

\* C5 as stated: on every 200 text/html response the style block stands
\* before </head>, else after <head>, else at the very start, and the script
\* block before </body>, else at the very end.
C5_Original ==
    GotHtml200 =>
        /\ StylePlaced(resp.upstream.body, resp.reply.body)
        /\ ScriptPlaced(resp.upstream.body, resp.reply.body)

\* C5 as amended: the same, on every 200 text/html response whose body
\* decodes as UTF-8.
C5_Placement ==
    (GotHtml200 /\ Decodable(resp.upstream.body)) =>
        /\ StylePlaced(resp.upstream.body, resp.reply.body)
        /\ ScriptPlaced(resp.upstream.body, resp.reply.body)

\* a document with <head> but neither </head> nor </body>
C5_Witness ==
    /\ GotHtml200
    /\ resp.upstream.body = <<HeadOpen, Link>>
    /\ resp.reply.body = <<HeadOpen, Newline, StyleBlock,
                           Ref("href", MountPrefix(K1) \o <<"/", "x">>), ScriptBlock>>

Injected ==
    /\ resp.reply.status = 200
    /\ HasItem(resp.reply.body, StyleBlock)
    /\ HasItem(resp.reply.body, ScriptBlock)
    /\ "Content-Type" \in DOMAIN resp.reply.headers
    /\ resp.reply.headers["Content-Type"] = TextHtmlUtf8

\* C6 as stated: every 200 text/html response of the backend is returned with
\* status 200, both blocks and Content-Type text/html; charset=utf-8, whatever
\* the body bytes.
C6_Original == GotHtml200 => Injected

\* C6 as amended: every 200 text/html response whose body decodes as UTF-8 is
\* returned with status 200, both blocks and the forced content type, whatever
\* the endpoint list and whether or not rewriting changed anything; a body that
\* is not valid UTF-8 is returned as the backend sent it, without the blocks and
\* without the forced content type.
C6_InjectedIfDecodable ==
    GotHtml200 =>
        IF Decodable(resp.upstream.body)
        THEN Injected
        ELSE /\ resp.reply.status = 200
             /\ resp.reply.body = resp.upstream.body
             /\ "Content-Type" \notin DOMAIN resp.reply.headers

\* the page of the end-to-end scenario, served with a charset parameter while
\* discovery failed
C6_Witness ==
    /\ GotHtml200
    /\ HeaderGet(resp.upstream.headers, "content-type") = TextHtmlUtf8
    /\ ~model_endpoints_cache[K1].cached
    /\ Len(resp.calls) = 2
    /\ Injected
    /\ resp.reply.body = <<HeadOpen, StyleBlock, Newline, HeadClose,
                           Ref("href", MountPrefix(K1) \o <<"/", "x">>),
                           ScriptBlock, Newline, BodyClose>>

\* the number of occurrences of an item in a body
Copies(body, item) == Cardinality({i \in DOMAIN body : body[i] = item})

---------------------------------------------------------------------------
(* Properties of the rewriter specification *)

\* the value carries the mount prefix of the key twice
DoublePrefixed(model_name, v) ==
    startswith(v, MountPrefix(model_name) \o MountPrefix(model_name))

HasDoublePrefix(model_name, content) ==
    \E i \in DOMAIN content : DoublePrefixed(model_name, content[i].val)

\* C3 as stated: rewriting the output of a rewrite changes nothing, and the
\* rewrite never produces a value that carries the mount prefix twice.
C3_Idempotent ==
    /\ rw.pc = "twice" => rw.twice = rw.once
    /\ (rw.pc # "input" /\ ~HasDoublePrefix(rw.model_name, rw.content))
          => ~HasDoublePrefix(rw.model_name, rw.once)

KnownSlashPaths ==
    {rw.endpoints[i].path : i \in {j \in DOMAIN rw.endpoints :
                                      startswith(rw.endpoints[j].path, <<"/">>)}}

\* C4 as stated: for every known path p that begins with "/", href="p" becomes
\* href="/api/k" followed by p, and href="/api/k" followed by p is returned
\* unchanged.
C4_KnownHref ==
    rw.pc # "input" =>
        \A p \in KnownSlashPaths :
            /\ rw.content = <<Ref("href", p)>>
                  => rw.once = <<Ref("href", MountPrefix(rw.model_name) \o p)>>
            /\ rw.content = <<Ref("href", MountPrefix(rw.model_name) \o p)>>
                  => rw.once = rw.content

\* the value is left to the catch-all pass: no per-path pass of main.py:188-206
\* matches it
Remaining(ref) ==
    \A p \in KnownSlashPaths :
        /\ ref.val # p
        /\ ref.ctx = "href" => ref.val # p \o <<"/">>

\* C20 as stated: an href, src or action value that starts with "/", does not
\* begin with the mount prefix /api/{key} of the backend and is left to the
\* catch-all pass comes out as /api/{key} followed by the original value;
\* /api/x, which is not mount-prefixed for the key, included.
C20_CatchAllRewrites ==
    (/\ rw.pc # "input"
     /\ rw.content[1].ctx \in AttrCtx
     /\ startswith(rw.content[1].val, <<"/">>)
     /\ ~startswith(rw.content[1].val, MountPrefix(rw.model_name))
     /\ Remaining(rw.content[1]))
        => rw.once = <<Ref(rw.content[1].ctx,
                           MountPrefix(rw.model_name) \o rw.content[1].val)>>

\* the script-level contexts: the first argument of fetch, with or without
\* further arguments, and the URL argument of an XHR open for any method
ScriptCtx == FetchCtx \cup XhrCtx \cup {"open_put_dq"}

\* C21 as stated: for every known path p that begins with "/", p and its
\* trailing-slash variant, standing as the first argument of fetch or as the
\* URL argument of an XHR open for any method, come out as /api/{key}
\* followed by the original value.
C21_ScriptReferences ==
    rw.pc # "input" =>
        \A p \in KnownSlashPaths, c \in ScriptCtx :
            /\ rw.content = <<Ref(c, p)>>
                  => rw.once = <<Ref(c, MountPrefix(rw.model_name) \o p)>>
            /\ (~endswith(p, <<"/">>) /\ rw.content = <<Ref(c, p \o <<"/">>)>>)
                  => rw.once = <<Ref(c, MountPrefix(rw.model_name) \o p \o <<"/">>)>>

---------------------------------------------------------------------------
(* Properties of the discovery specification *)

\* the manifest fetch of the request failed: timeout, connection error,
\* non-200 status or a body that is not a manifest
DiscoveryFailed ==
    \/ resp.manifest.kind \in {"timeout", "connect_error"}
    \/ resp.manifest.kind = "response"
          /\ (resp.manifest.status # 200 \/ ~resp.manifest.wellformed)

\* the body with the three pattern passes of main.py:226-242 applied, and none
\* of the per-path replacements
CatchAllOnly(content, model_name) ==
    CatchAllPass(CatchAllPass(CatchAllPass(content, AttrCtx, model_name),
                              {"fetch_dq"}, model_name),
                 {"fetch_sq"}, model_name)

\* C11: when the manifest fetch of a proxied HTML or JavaScript response fails
\* (timeout, connection error, non-200, malformed body), discovery yields the
\* empty list and caches nothing, and the response is still returned with the
\* backend's status, rewritten by the catch-all pass only.
C11_DiscoveryNeverFails ==
    (resp.op = "proxy" /\ DiscoveryFailed)
        => /\ resp.reply.source = "backend"
           /\ resp.reply.status = resp.upstream.status
           /\ resp.reply.body =
                 IF IsHtml200(resp.upstream)
                 THEN InjectScript(InjectStyle(CatchAllOnly(resp.upstream.body, resp.key)))
                 ELSE CatchAllOnly(resp.upstream.body, resp.key)
           /\ ~model_endpoints_cache[resp.key].cached
           /\ Len(resp.calls) = 2

\* a JavaScript file whose manifest fetch got a 500 that lists /x: fetch("/x",
\* is left as it is, fetch("/y") is mounted
C11_Witness ==
    /\ resp.op = "proxy"
    /\ resp.upstream = JsFile
    /\ resp.manifest = ManifestNon200
    /\ resp.reply.status = 200
    /\ resp.reply.body = <<Ref("fetch_dq_args", <<"/", "x">>),
                           Ref("fetch_dq", MountPrefix(resp.key) \o <<"/", "y">>)>>

\* the list a well-formed 200 manifest yields
Fetched(disc) ==
    [i \in DOMAIN disc.routes |->
        Endpoint(disc.routes[i].path, Upper(disc.routes[i].method))]

\* C12 as stated: the endpoints listing of a live key returns the fetched list
\* when the manifest fetch succeeds, and in every other case (non-200,
\* timeout, connection error, malformed body) the seven default routes marked
\* "default endpoints".
C12_FallbackWhenUnavailable ==
    (resp.op = "endpoints" /\ resp.manifest.kind # "none")
        => IF DiscoveryFailed
           THEN /\ resp.reply.endpoints = DefaultEndpoints
                /\ resp.reply.detail = "default endpoints"
           ELSE /\ resp.reply.endpoints = Fetched(resp.manifest)
                /\ resp.reply.detail = "available"

\* the answer was rewritten as HTML, or as JavaScript
RewrittenAs(ctype) ==
    /\ resp.op = "proxy"
    /\ resp.upstream.kind = "response"
    /\ resp.reply.source = "backend"
    /\ "Content-Type" \in DOMAIN resp.reply.headers
    /\ resp.reply.headers["Content-Type"] = ctype

\* C23 as stated: a rewritten HTML response carries text/html; charset=utf-8
\* as its only Content-Type value and a rewritten JavaScript response
\* application/javascript; the backend's own content-type does not remain.
C23_ForcedContentType ==
    \A ctype \in {TextHtmlUtf8, AppJavascript} :
        RewrittenAs(ctype)
            => {line[2] : line \in ContentTypeLines(resp.reply.headers)} = {ctype}
               /\ Cardinality(ContentTypeLines(resp.reply.headers)) = 1

\* the request r ran the manifest fetch of get_model_endpoints_internal
Discovered(r) == r.op = "proxy" /\ CallsOf(r.calls, "discovery") # {}

\* the manifest fetch answered 200 with a body of the manifest's shape
ManifestParsed(disc) ==
    disc.kind = "response" /\ disc.status = 200 /\ disc.wellformed

\* the request r got an answer that takes the HTML or the JavaScript branch
\* with a body that decodes
Rewritable(r) ==
    /\ r.op = "proxy"
    /\ r.upstream.kind = "response"
    /\ IsHtml200(r.upstream) \/ IsJavascript(r.upstream, r.path)
    /\ Decodable(r.upstream.body)

\* C30: the endpoint cache starts empty and the entry of a key changes in a
\* step exactly when that step is a request for the key whose manifest fetch
\* returned 200 with a parseable manifest; the entry is then the list of the
\* manifest's routes (the empty list for a manifest without routes). A failed
\* fetch leaves the cache as it was, a request for a key without an entry
\* whose answer is HTML or JavaScript always runs the fetch, and a key with
\* an entry is never fetched again.
C30_CachedIffParsed ==
    [][\A k \in Keys :
          LET fetched == Discovered(resp') /\ resp'.key = k
              parsed == fetched /\ ManifestParsed(resp'.manifest)
          IN /\ (model_endpoints_cache'[k] # model_endpoints_cache[k]) <=> parsed
             /\ parsed => model_endpoints_cache'[k] =
                              [cached |-> TRUE, endpoints |-> Fetched(resp'.manifest)]
             /\ model_endpoints_cache[k].cached => ~fetched
             /\ (Rewritable(resp') /\ resp'.key = k /\ ~model_endpoints_cache[k].cached)
                   => fetched
      ]_vars

\* a manifest without routes was cached as the empty list and the next page of
\* the key was served without a manifest fetch
C30_Witness ==
    /\ model_endpoints_cache[K1] = [cached |-> TRUE, endpoints |-> <<>>]
    /\ ~model_endpoints_cache[K2].cached
    /\ Rewritable(resp)
    /\ resp.key = K1
    /\ ~Discovered(resp)

---------------------------------------------------------------------------
(* Properties of the cache specification *)

\* C28: once the endpoint cache holds an entry for a key, the entry stays as
\* it is in every step (requests, status changes, /refresh), every call of
\* get_model_endpoints_internal for the key returns it without an outbound
\* call, whatever the port and whatever the backend would answer, and no
\* request for the key runs the manifest fetch.
C28_CacheHit ==
    [][\A k \in Keys :
          model_endpoints_cache[k].cached =>
             /\ model_endpoints_cache'[k] = model_endpoints_cache[k]
             /\ \A port \in CachePorts \cup {NoPort}, d \in Manifests :
                   get_model_endpoints_internal(model_endpoints_cache', k, port, d) =
                      [endpoints |-> model_endpoints_cache[k].endpoints,
                       cache |-> model_endpoints_cache',
                       calls |-> <<>>]
             /\ (resp'.op = "proxy" /\ resp'.key = k) => ~Discovered(resp')
      ]_vars

\* a page of a key was served from the backend's new port with the list
\* cached from the old port, without a manifest fetch, after the other key's
\* backend was reported as failed
C28_Witness ==
    /\ model_endpoints_cache[K1] = [cached |-> TRUE, endpoints |-> Fetched(ManifestOk)]
    /\ model_status.models[K1] = [present |-> TRUE, status |-> "success", port |-> 9002]
    /\ model_status.models[K2].status = "failed"
    /\ resp.op = "proxy"
    /\ resp.key = K1
    /\ resp.upstream = HtmlPage
    /\ Len(resp.calls) = 1
    /\ resp.calls[1].port = 9002
    /\ resp.reply.body =
          InjectScript(InjectStyle(
             rewrite_urls_in_content(PageBody, K1, Fetched(ManifestOk))))

---------------------------------------------------------------------------
(* Properties of the request specification *)

WasForwarded == resp.op = "proxy" /\ resp.upstream.kind # "none"

\* C15 as stated: the forwarded request carries the inbound method and body,
\* and its list of query pairs equals the inbound list, repeated keys and
\* order included.
C15_QueryVerbatim ==
    WasForwarded
        => /\ resp.sent.method = resp.request.method
           /\ resp.sent.content = resp.request.body
           /\ resp.sent.params = resp.request.query_params

\* C16 as stated: the headers sent to the backend contain no name of the
\* exclusion set, compared case-insensitively, and contain every other inbound
\* header with its value.
C16_HeaderFilter ==
    WasForwarded
        => /\ \A i \in DOMAIN resp.sent.headers :
                 LowerName(resp.sent.headers[i][1]) \notin RequestExcluded
           /\ \A i \in DOMAIN resp.request.headers :
                 LowerName(resp.request.headers[i][1]) \notin RequestExcluded
                    => \E j \in DOMAIN resp.sent.headers :
                          resp.sent.headers[j] = resp.request.headers[i]

---------------------------------------------------------------------------
(* Properties of the sequence specification *)

SequenceChecked ==
    validation.pc = "done" /\ validation.op = "validate_model_sequence"

\* some adjacent pair of stages declares a name as output of the first and as
\* input of the second with different types
DeclaredMismatch(stages) ==
    \E i \in 1..(Len(stages) - 1) :
        \E o \in DOMAIN stages[i].output_template,
           n \in DOMAIN stages[i + 1].input_features :
              /\ stages[i].output_template[o][1] = stages[i + 1].input_features[n][1]
              /\ stages[i].output_template[o][2] # stages[i + 1].input_features[n][2]

\* no list of declarations of any stage declares a name twice
UniqueNames(stages) ==
    \A i \in DOMAIN stages :
        \A l \in {stages[i].output_template, stages[i].input_features} :
            \A a, b \in DOMAIN l : l[a][1] = l[b][1] => a = b

\* the type a list of declarations gives a name: that of its last declaration
DeclaresLast(l, name, type) ==
    \E a \in DOMAIN l :
        /\ l[a] = <<name, type>>
        /\ \A b \in DOMAIN l : l[b][1] = name => b <= a

\* C17 as stated: validate_model_sequence raises if and only if some adjacent
\* pair of stages has a name that is an output of the first and an input of the
\* second with different declared types.
C17_Original ==
    SequenceChecked => (validation.raised <=> DeclaredMismatch(validation.input))

\* C17 as amended: validate_model_sequence raises if and only if some adjacent
\* pair of stages i, i+1 has a name whose last declaration among the outputs
\* of stage i and whose last declaration among the inputs of stage i+1 have
\* different types; when no list declares a name twice that is: if and only if
\* some name is an output of stage i and an input of stage i+1 with different
\* types.  Stages that are not adjacent are never compared.
C17_LastDeclarationMismatch ==
    SequenceChecked =>
        /\ validation.raised <=>
              \E i \in 1..(Len(validation.input) - 1) :
                 \E name \in {"score", "label"}, t1, t2 \in {"float", "int", "string"} :
                    /\ t1 # t2
                    /\ DeclaresLast(validation.input[i].output_template, name, t1)
                    /\ DeclaresLast(validation.input[i + 1].input_features, name, t2)
        /\ UniqueNames(validation.input)
              => (validation.raised <=> DeclaredMismatch(validation.input))

\* stage 1 outputs score:float, stage 2 takes score:int: rejected
C17_Witness ==
    /\ SequenceChecked
    /\ validation.input = <<Stage(<<>>, <<ScoreFloat>>), Stage(<<ScoreInt>>, <<>>)>>
    /\ validation.raised

---------------------------------------------------------------------------
(* Properties of the records specification *)

RecordsChecked == validation.pc = "done" /\ validation.op = "verify_types"

\* the shape a type asks of a value: image - a base64-decodable string or
\* bytes; float - a number; int - an integer (Python counts a bool as one);
\* string - text; plot - an object with numeric lists x and y of equal length
\* and string labels
ShapeMatches(type, value) ==
    CASE type = "image" ->
           value \in {StrBase64, BytesBase64}
      [] type = "float" -> value \in {AFloat, AnInt, ABool}
      [] type = "int" -> value \in {AnInt, ABool}
      [] type = "string" -> value \in {StrBase64, StrPlain}
      [] type = "plot" -> value = GoodPlot
      [] OTHER -> FALSE

ValidRecord(row) ==
    /\ {"name", "type", "value"} \subseteq DOMAIN row
    /\ row["type"] \in {"image", "float", "int", "string", "plot"}
    /\ ShapeMatches(row["type"], row["value"])

HasUnequalPlot(rows) ==
    \E i \in DOMAIN rows :
        /\ {"type", "value"} \subseteq DOMAIN rows[i]
        /\ rows[i]["type"] = "plot"
        /\ rows[i]["value"] \in {UnequalPlot, UnequalIntLabelPlot}

\* C18: verify_types rejects a list with a plot record whose x and y differ in
\* length, and accepts a list if and only if every record has name, type and
\* value, a type among image, float, int, string and plot, and a value whose
\* shape matches the type.
C18_AcceptsIffValid ==
    RecordsChecked =>
        /\ HasUnequalPlot(validation.input) => validation.raised
        /\ ~validation.raised
              <=> \A i \in DOMAIN validation.input : ValidRecord(validation.input[i])

\* a valid plot record is accepted, followed by one with unequal arrays the
\* list is rejected
C18_Witness ==
    /\ RecordsChecked
    /\ validation.input = <<Row("plot", GoodPlot), Row("plot", UnequalPlot)>>
    /\ validation.raised

---------------------------------------------------------------------------
(* Properties of the config specification *)

\* the descriptor of the backend's folder fails to parse or validate
DescriptorFails ==
    /\ fs.folder # NoFolder
    /\ fs.descriptor = "invalid"

\* C19: with a descriptor that fails to parse or validate, load_model_config
\* yields not-found, caches nothing and lets no exception out: the home page
\* is rendered with the default display info of every registered key, and a
\* proxy request of a live key for a static-looking sub-path is forwarded,
\* the local file notwithstanding.
C19_ConfigFailureDegrades ==
    DescriptorFails
        => /\ \A k \in Keys : ~model_info_cache[k].found
           /\ resp.reply.source # "unhandled"
           /\ resp.op = "home"
                 => /\ resp.reply.status = 200
                    /\ Len(resp.reply.body)
                          = Cardinality({k \in Keys : model_status.models[k].present})
                    /\ \A i \in DOMAIN resp.reply.body :
                          /\ resp.reply.body[i].folder_name = resp.reply.body[i].key
                          /\ resp.reply.body[i].type = "single"
                          /\ resp.reply.body[i].model_version = "Unknown"
                          /\ resp.reply.body[i].model_name
                                \in {<<"M", "-", "1">>, <<"M", " ", "1">>}
           /\ (resp.op = "proxy" /\ IsLiveEntry(resp.seen.entry)
                                 /\ LooksStatic(resp.path))
                 => /\ resp.calls # <<>>
                    /\ resp.calls[1]
                          = Call("forward", resp.seen.entry.port, "GET", resp.path)
                    /\ resp.reply.source # "file"

\* the descriptor is a sequence whose stage 1 outputs score:float and whose
\* stage 2 takes score:int; logo.png exists locally and is still forwarded
C19_Witness ==
    /\ fs = Dir(Folder1, SequenceDescriptor(MismatchSequence), {LogoPng}, {})
    /\ fs.descriptor = "invalid"
    /\ resp.op = "proxy"
    /\ resp.path = LogoPng
    /\ resp.upstream = HtmlPage
    /\ resp.reply.source = "backend"

\* the request ran load_model_config and the call listed the models directory
Scanned(r) == r.op = "proxy" /\ "models_dir" \in r.touched

\* C24 as stated: the models directory is listed at most once per normalized
\* name, so a request that follows a request which listed it for the same
\* normalized name (another key of that name, or the same key after a
\* not-found) is answered without a second listing; and a config that is in
\* the cache is what every later call returns.
C24_ScanOncePerName ==
    [][/\ \A k \in Keys :
             model_info_cache[k].found => model_info_cache'[k] = model_info_cache[k]
       /\ (/\ Scanned(resp)
           /\ fs.folder # NoFolder
           /\ resp'.op = "proxy"
           /\ Normalize(resp'.key) = Normalize(resp.key))
             => ~Scanned(resp')]_vars

---------------------------------------------------------------------------
(* Properties of the inference specification *)

\* the list handed to a stage that declares `features`, after a stage that
\* returned `previous`: per declared feature, in order, a record of that name
\* out of `previous` if there is one, else the configured default
Assembled(input, previous, features) ==
    /\ DOMAIN input = DOMAIN features
    /\ \A k \in DOMAIN features :
          LET same == {m \in DOMAIN previous :
                          previous[m]["name"] = features[k]["name"]}
          IN IF same = {}
             THEN input[k] = Feature(features[k]["name"], features[k]["type"],
                                     features[k]["value"])
             ELSE \E m \in same : input[k] = previous[m]

\* the runs so far are the stages 1, 2, .. in declared order: each got the
\* input the claim describes, had it checked by verify_types before running
\* and its output checked after, and a refusal ended the pipeline
Orchestrated ==
    LET runs == pipeline.runs
        seq == pipeline.MODEL_SEQUENCE
    IN  /\ Len(runs) <= Len(seq)
        /\ pipeline.pc = "checked" => Len(runs) = pipeline.i - 1
        /\ pipeline.pc = "returned"
              => /\ Len(runs) = Len(seq)
                 /\ \A j \in DOMAIN runs : ~runs[j].input_raised /\ ~runs[j].output_raised
        /\ \A j \in DOMAIN runs :
              /\ IF j = 1 THEN runs[j].input = pipeline.model_input
                 ELSE Assembled(runs[j].input, runs[j - 1].results,
                                seq[j].input_features)
              /\ runs[j].input_raised = verify_types(runs[j].input).raised
              /\ runs[j].input_raised => runs[j].ran = 0
              /\ ~runs[j].input_raised
                    => runs[j].output_raised = verify_types(runs[j].results).raised
              /\ (runs[j].input_raised \/ runs[j].output_raised)
                    => j = Len(runs) /\ pipeline.pc = "raised"

C31_ConfigUntouched ==
    \A j \in DOMAIN pipeline.MODEL_SEQUENCE :
        \A k \in DOMAIN pipeline.MODEL_SEQUENCE[j].output_template :
            DOMAIN pipeline.MODEL_SEQUENCE[j].output_template[k] = {"name", "type"}

---------------------------------------------------------------------------
(* Properties of the in-flight specification *)

\* the request in slot id went through the manifest fetch
Fetching(f) == f.manifest # NoManifest

\* what a request alone, on an empty cache, stores for the key when the
\* backend answers the manifest fetch
StoredAlone(model_name) ==
    get_model_endpoints_internal(EmptyEndpointsCache, model_name, LiveEntry.port,
                                 inflight.backend).cache[model_name]

\* the answer of a request that went through the Rewrite phase: the backend's
\* status and the body rewritten with the list of its own fetch
NormalReply(f) ==
    /\ FlightReply(f).source = "backend"
    /\ FlightReply(f).status = f.upstream.status
    /\ FlightReply(f).body =
          InjectScript(InjectStyle(rewrite_urls_in_content(
             f.upstream.body, f.key,
             IF ManifestParsed(f.manifest) THEN Fetched(f.manifest) ELSE <<>>)))

\* C26: requests for one key that all miss the endpoint cache all run the
\* manifest fetch, and in every interleaving each of them answers with the
\* backend's status and the page rewritten with the list it fetched; each one
\* whose fetch was parsed stores its list over whatever the cache holds, so
\* the entry is the list of the last one that finished, and that list is the
\* one a single request would have stored; a step of a request for one key
\* leaves the entries of the other keys as they are.
C26_HarmlessRace ==
    [][ /\ \A id \in Flights :
              LET f == inflight'.flights[id]
              IN  /\ (f.pc = "Respond" /\ Fetching(f)) => NormalReply(f)
                  /\ (inflight.flights[id].pc = "Rewrite" /\ f.pc = "Respond") =>
                        /\ f.wrote = ManifestParsed(f.manifest)
                        /\ f.wrote =>
                              model_endpoints_cache'[f.key] =
                                 [cached |-> TRUE, endpoints |-> Fetched(f.manifest)]
                        /\ \A k \in Keys \ {f.key} :
                              model_endpoints_cache'[k] = model_endpoints_cache[k]
        /\ \A k \in Keys :
              model_endpoints_cache'[k].cached =>
                 model_endpoints_cache'[k] = StoredAlone(k)
      ]_vars

\* two requests for the same key both missed the cache, both fetched the
\* manifest and both stored their list, while a request for the other key
\* has not been made
C26_Witness ==
    /\ MaxFlights >= 2
    /\ \A id \in 1..2 :
          /\ inflight.flights[id].pc = "Respond"
          /\ inflight.flights[id].key = K1
          /\ inflight.flights[id].wrote
          /\ NormalReply(inflight.flights[id])
    /\ model_endpoints_cache[K1] = [cached |-> TRUE, endpoints |-> Fetched(ManifestOk)]
    /\ ~model_endpoints_cache[K2].cached

\* the phases a request may have gone through, in order
PhaseOrders ==
    { <<"Lookup", "Respond">>,
      <<"Lookup", "StaticAsset", "Respond">>,
      <<"Lookup", "Forward", "Respond">>,
      <<"Lookup", "Forward", "Rewrite", "Respond">> }

IsPrefix(s, t) == Len(s) <= Len(t) /\ SubSeq(t, 1, Len(s)) = s

\* the answers a request can end with
Terminal(f) ==
    \E reply \in {FlightReply(f)} :
        \/ reply.source = "backend" /\ reply.status = f.upstream.status
        \/ reply.source = "file" /\ reply.status = 200
        \/ reply.source \in {"gateway", "unhandled"}
              /\ reply.status \in {404, 503, 504, 500}

Pending(id) == inflight.flights[id].pc \in {"Forward", "Rewrite"}

Responded(id) ==
    /\ inflight.flights[id].pc = "Respond"
    /\ inflight.flights[id].trace \in PhaseOrders
    /\ Terminal(inflight.flights[id])

\* C27: a request goes through Lookup, then StaticAsset or Forward, then
\* Rewrite if the answer is rewritten, then Respond, in that order, and,
\* every outbound call returning or timing out, a request that waits for the
\* backend gets its answer: the backend's response, a local file, or one of
\* 404, 503, 504, 500.
C27_Terminates ==
    /\ [](\A id \in Flights :
            LET f == inflight.flights[id]
            IN  /\ f.pc # "idle" => \E o \in PhaseOrders : IsPrefix(f.trace, o)
                /\ f.pc # "idle" => f.trace[Len(f.trace)] = f.pc
                /\ f.pc = "Respond" => Responded(id))
    /\ \A id \in Flights : Pending(id) ~> Responded(id)

\* one request got 504 because the backend never answered, while another one
\* answered the page after its manifest fetch ran into the timeout
C27_Witness ==
    /\ MaxFlights >= 2
    /\ Responded(1)
    /\ inflight.flights[1].upstream = TimeoutError
    /\ FlightReply(inflight.flights[1]).status = 504
    /\ inflight.flights[1].trace = <<"Lookup", "Forward", "Respond">>
    /\ Responded(2)
    /\ inflight.flights[2].manifest = ManifestTimeout
    /\ FlightReply(inflight.flights[2]).status = 200
    /\ inflight.flights[2].trace = <<"Lookup", "Forward", "Rewrite", "Respond">>

====
